---- MODULE Spec2Model ----
(***************************************************************************)
(* A model of the ledger core of ParadeTo/bc (bitcoin/): transactions,     *)
(* the UTXO set, Merkle-committed blocks, proof of work and the Blockchain *)
(* class that owns the chain and its UTXO projection.                      *)
(*                                                                         *)
(* Strings are sequences of symbols (integers).  A digest is a number of   *)
(* HexLen hexadecimal digits; the digest function is a deterministic       *)
(* mixing function over the symbols of its argument.                       *)
(***************************************************************************)
EXTENDS Integers, Sequences, FiniteSets, TLC

(***************************************************************************)
(* Bounds of the model.                                                    *)
(***************************************************************************)
MaxChain == 3        \* longest chain a Blockchain instance is grown to
MaxNonce == 20       \* nonces ProofOfWork.mine tries in the model
MaxBlockTxs == 2     \* most transactions in a candidate block
MaxRetargetChain == 4    \* longest chain calculateNextDifficulty is asked on
MaxInterval == 3         \* largest difficultyAdjustmentInterval configured
MaxTipDifficulty == 3    \* largest difficulty of the tip block

(***************************************************************************)
(* crypto/hash.ts                                                          *)
(***************************************************************************)
HexLen == 4          \* hexadecimal digits kept of a digest
HexBase == 16
HashMul == 20123     \* multiplier of the digest's mixing step

RECURSIVE Pow(_, _)
Pow(b, e) == IF e = 0 THEN 1 ELSE b * Pow(b, e - 1)

HashSpace == Pow(HexBase, HexLen)

\* One step of the digest: absorb one symbol, then fold the two halves of
\* the state into it so that the digest is not an affine function of its
\* input.
MixStep(h, symbol) ==
    LET t == (((h + symbol + 2) % HashSpace) * HashMul) % HashSpace
    IN  (t + (t % 256) * (t \div 256)) % HashSpace

RECURSIVE MixFrom(_, _, _)
MixFrom(h, data, i) ==
    IF i > Len(data) THEN h ELSE MixFrom(MixStep(h, data[i]), data, i + 1)

Mix(h, data) == MixFrom(h, data, 1)

\* Hash.sha256(data): the digest of a string, as a number of HexLen digits.
Sha256(data) == Mix(Len(data) + 1, data)

\* Hash.doubleSha256(data) = sha256(sha256(data)); the first digest is
\* hashed again as the string of its hexadecimal digits.
DoubleSha256(data) == Sha256(<<Sha256(data)>>)

\* ZeroPrefixBound[n]: the digests whose HexLen digits start with n zeros
\* are the numbers below it.
ZeroPrefixBound == [n \in 0..HexLen |-> Pow(HexBase, HexLen - n)]

\* hash.startsWith('0'.repeat(n)) for a digest of HexLen digits.
StartsWithZeros(h, n) ==
    /\ n <= HexLen
    /\ h >= 0
    /\ h < ZeroPrefixBound[n]

(***************************************************************************)
(* transaction/TxInput.ts, TxOutput.ts, Transaction.ts                     *)
(***************************************************************************)
\* '0000...0000', the transaction id a coinbase input refers to.
CoinbaseTxId == 0

TxInput(txId, outputIndex) == [txId |-> txId, outputIndex |-> outputIndex]
TxOutput(amount, address) == [amount |-> amount, address |-> address]

RECURSIVE InputsForSigning(_)
InputsForSigning(inputs) ==
    IF inputs = <<>> THEN <<>>
    ELSE <<Head(inputs).txId, Head(inputs).outputIndex>>
             \o InputsForSigning(Tail(inputs))

RECURSIVE OutputsToJSON(_)
OutputsToJSON(outputs) ==
    IF outputs = <<>> THEN <<>>
    ELSE <<Head(outputs).amount, Head(outputs).address>>
             \o OutputsToJSON(Tail(outputs))

\* A content for signing that leaves the outputs out.
GetContentForSigning_InputsOnly(inputs, outputs, timestamp) ==
    <<Len(inputs)>> \o InputsForSigning(inputs) \o <<timestamp>>

\* Transaction.getContentForSigning: the JSON text of
\* {inputs: [{txId, outputIndex}], outputs: [output.toJSON()], timestamp}.
GetContentForSigning(inputs, outputs, timestamp) ==
    <<Len(inputs)>> \o InputsForSigning(inputs)
        \o <<Len(outputs)>> \o OutputsToJSON(outputs) \o <<timestamp>>

\* Transaction.calculateId
CalculateId(inputs, outputs, timestamp) ==
    Sha256(GetContentForSigning(inputs, outputs, timestamp))

\* new Transaction(inputs, outputs, timestamp), for non-empty lists.
Transaction(inputs, outputs, timestamp) ==
    [id |-> CalculateId(inputs, outputs, timestamp),
     inputs |-> inputs, outputs |-> outputs, timestamp |-> timestamp]

\* Transaction.isCoinbase
IsCoinbase(tx) ==
    /\ Len(tx.inputs) = 1
    /\ tx.inputs[1].txId = CoinbaseTxId

\* Transaction.createCoinbase(minerAddress, amount, blockHeight), built at
\* clock reading `now`.
CreateCoinbase(minerAddress, amount, blockHeight, now) ==
    Transaction(<<TxInput(CoinbaseTxId, blockHeight)>>,
                <<TxOutput(amount, minerAddress)>>, now)

(***************************************************************************)
(* merkle/MerkleTree.ts                                                    *)
(***************************************************************************)
RECURSIVE MerkleLeaves(_)
MerkleLeaves(data) ==
    IF data = <<>> THEN <<>>
    ELSE <<Sha256(<<Head(data)>>)>> \o MerkleLeaves(Tail(data))

\* One level of buildTreeFromNodes: pair the hashes, the last one with
\* itself when it has no partner.
RECURSIVE MerkleParents(_)
MerkleParents(hashes) ==
    IF hashes = <<>> THEN <<>>
    ELSE IF Len(hashes) = 1 THEN <<Sha256(<<hashes[1], hashes[1]>>)>>
    ELSE <<Sha256(<<hashes[1], hashes[2]>>)>>
             \o MerkleParents(Tail(Tail(hashes)))

RECURSIVE BuildTreeFromNodes(_)
BuildTreeFromNodes(hashes) ==
    IF Len(hashes) = 1 THEN hashes[1]
    ELSE BuildTreeFromNodes(MerkleParents(hashes))

\* new MerkleTree(data).getRoot(), for a non-empty list of ids.
MerkleRoot(data) == BuildTreeFromNodes(MerkleLeaves(data))

(***************************************************************************)
(* blockchain/Block.ts, blockchain/ProofOfWork.ts                          *)
(***************************************************************************)
\* '0', the previousHash of a genesis block: no digest has this text.
GenesisPreviousHash == -1
\* 'wrong_hash': another text that is no digest.
WrongHash == -2

RECURSIVE TxIds(_)
TxIds(txs) == IF txs = <<>> THEN <<>> ELSE <<Head(txs).id>> \o TxIds(Tail(txs))

\* new Block(index, previousHash, timestamp, transactions, difficulty, nonce)
NewBlock(index, previousHash, timestamp, transactions, difficulty, nonce) ==
    [index |-> index, previousHash |-> previousHash, timestamp |-> timestamp,
     merkleRoot |-> MerkleRoot(TxIds(transactions)),
     difficulty |-> difficulty, nonce |-> nonce,
     transactions |-> transactions]

\* Block.getHeaderString
GetHeaderString(b) ==
    <<b.index, b.previousHash, b.timestamp, b.merkleRoot, b.difficulty, b.nonce>>

\* Block.calculateHash; the `hash` getter returns it for a block whose
\* fields were not written after the hash was first read.
BlockHash(b) == DoubleSha256(GetHeaderString(b))

\* Block.setNonce
SetNonce(b, nonce) == [b EXCEPT !.nonce = nonce]

\* ProofOfWork.verify
Verify(b) == StartsWithZeros(BlockHash(b), b.difficulty)

\* The digest state after the header fields that precede the nonce.
HeaderMidstate(b) ==
    Mix(Len(GetHeaderString(b)) + 1,
        SubSeq(GetHeaderString(b), 1, Len(GetHeaderString(b)) - 1))

\* The block's hash once its nonce is set to `nonce`.
HashAtNonce(midstate, nonce) == Sha256(<<MixStep(midstate, nonce)>>)

\* The loop of ProofOfWork.mine from `nonce` on: the first nonce whose hash
\* starts with the target, or MaxNonce + 1 when none of the nonces up to
\* MaxNonce does (the loop is still running).
RECURSIVE MineFrom(_, _, _)
MineFrom(midstate, difficulty, nonce) ==
    IF nonce > MaxNonce THEN nonce
    ELSE IF StartsWithZeros(HashAtNonce(midstate, nonce), difficulty) THEN nonce
    ELSE MineFrom(midstate, difficulty, nonce + 1)

MinedNonce(b) == MineFrom(HeaderMidstate(b), b.difficulty, 0)

\* ProofOfWork.mine: the block with the nonce the loop stops at.
Mine(b) == SetNonce(b, MinedNonce(b))

(***************************************************************************)
(* transaction/UTXO.ts: the UTXO set is a map from `${txId}:${outputIndex}` *)
(* to the output; the key is modelled as the pair.                         *)
(***************************************************************************)
MakeKey(txId, outputIndex) == <<txId, outputIndex>>

\* new UTXOSet()
EmptyUTXOSet == [k \in {} |-> TxOutput(0, 0)]

\* UTXOSet.add
UTXOAdd(utxos, txId, outputIndex, output) ==
    [k \in (DOMAIN utxos) \cup {MakeKey(txId, outputIndex)} |->
        IF k = MakeKey(txId, outputIndex) THEN output ELSE utxos[k]]

\* UTXOSet.remove
UTXORemove(utxos, txId, outputIndex) ==
    [k \in (DOMAIN utxos) \ {MakeKey(txId, outputIndex)} |-> utxos[k]]

\* UTXOSet.has
UTXOHas(utxos, txId, outputIndex) == MakeKey(txId, outputIndex) \in DOMAIN utxos

\* UTXOSet.getBalance: the sum of the amounts of the outputs of `address`,
\* over the keys `keys` of the map.
RECURSIVE BalanceOver(_, _, _)
BalanceOver(utxos, keys, address) ==
    IF keys = {} THEN 0
    ELSE LET k == CHOOSE x \in keys : TRUE
         IN  (IF utxos[k].address = address THEN utxos[k].amount ELSE 0)
                 + BalanceOver(utxos, keys \ {k}, address)

GetBalance(utxos, address) == BalanceOver(utxos, DOMAIN utxos, address)

(***************************************************************************)
(* blockchain/Blockchain.ts                                                *)
(***************************************************************************)
BlockReward == 50    \* config.blockReward
InitialDifficulty == 1

\* Blockchain.isValidTransaction: every input's outpoint is in the set.
IsValidTransaction(utxos, tx) ==
    \A i \in 1..Len(tx.inputs) :
        UTXOHas(utxos, tx.inputs[i].txId, tx.inputs[i].outputIndex)

\* isValidNewBlock with the timestamp test written `<` instead of `<=`.
IsValidNewBlock_EqualTime(utxos, newBlock, previousBlock) ==
    /\ newBlock.index = previousBlock.index + 1
    /\ newBlock.previousHash = BlockHash(previousBlock)
    /\ Verify(newBlock)
    /\ ~(newBlock.timestamp < previousBlock.timestamp)
    /\ \A i \in 1..Len(newBlock.transactions) :
          \/ IsCoinbase(newBlock.transactions[i])
          \/ IsValidTransaction(utxos, newBlock.transactions[i])

\* isValidNewBlock without the test of the index.
IsValidNewBlock_AnyIndex(utxos, newBlock, previousBlock) ==
    /\ newBlock.previousHash = BlockHash(previousBlock)
    /\ Verify(newBlock)
    /\ ~(newBlock.timestamp <= previousBlock.timestamp)
    /\ \A i \in 1..Len(newBlock.transactions) :
          \/ IsCoinbase(newBlock.transactions[i])
          \/ IsValidTransaction(utxos, newBlock.transactions[i])

\* Blockchain.isValidNewBlock, against the instance's UTXO set.
IsValidNewBlock(utxos, newBlock, previousBlock) ==
    /\ newBlock.index = previousBlock.index + 1
    /\ newBlock.previousHash = BlockHash(previousBlock)
    /\ Verify(newBlock)
    /\ ~(newBlock.timestamp <= previousBlock.timestamp)
    /\ \A i \in 1..Len(newBlock.transactions) :
          \/ IsCoinbase(newBlock.transactions[i])
          \/ IsValidTransaction(utxos, newBlock.transactions[i])

RECURSIVE RemoveInputs(_, _)
RemoveInputs(utxos, inputs) ==
    IF inputs = <<>> THEN utxos
    ELSE RemoveInputs(UTXORemove(utxos, Head(inputs).txId,
                                 Head(inputs).outputIndex), Tail(inputs))

RECURSIVE AddOutputs(_, _, _, _)
AddOutputs(utxos, txId, outputs, index) ==
    IF index >= Len(outputs) THEN utxos
    ELSE AddOutputs(UTXOAdd(utxos, txId, index, outputs[index + 1]),
                    txId, outputs, index + 1)

\* updateUTXOSet's loop body without the removal of the spent outpoints.
UpdateUTXOSetTx_KeepsSpent(utxos, tx) == AddOutputs(utxos, tx.id, tx.outputs, 0)

\* The body of updateUTXOSet's loop for one transaction.
UpdateUTXOSetTx(utxos, tx) ==
    AddOutputs(IF IsCoinbase(tx) THEN utxos ELSE RemoveInputs(utxos, tx.inputs),
               tx.id, tx.outputs, 0)

RECURSIVE UpdateUTXOSetTxs(_, _)
UpdateUTXOSetTxs(utxos, txs) ==
    IF txs = <<>> THEN utxos
    ELSE UpdateUTXOSetTxs(UpdateUTXOSetTx(utxos, Head(txs)), Tail(txs))

\* Blockchain.updateUTXOSet
UpdateUTXOSet(utxos, block) == UpdateUTXOSetTxs(utxos, block.transactions)

\* Blockchain.isValidChain
IsValidChain(blocks, utxos) ==
    /\ Len(blocks) # 0
    /\ ~(blocks[1].index # 0 \/ blocks[1].previousHash # GenesisPreviousHash)
    /\ \A i \in 2..Len(blocks) : IsValidNewBlock(utxos, blocks[i], blocks[i - 1])

\* The rebuild loop of replaceChain.
RECURSIVE RebuildUTXOSet(_, _)
RebuildUTXOSet(utxos, blocks) ==
    IF blocks = <<>> THEN utxos
    ELSE RebuildUTXOSet(UpdateUTXOSet(utxos, Head(blocks)), Tail(blocks))

(***************************************************************************)
(* The callers' inputs: a few transactions, the blocks built from them.    *)
(***************************************************************************)
GenesisTime == 1     \* clock reading when the genesis block is created
WrongIndex == 99     \* the wrong index of Blockchain.test.ts

Alice == 1
Bob == 2

Coinbase0 == CreateCoinbase(Alice, BlockReward, 0, GenesisTime)
Coinbase1 == CreateCoinbase(Bob, BlockReward, 1, GenesisTime)
\* Two transactions spending the same outpoint, output 0 of Coinbase0.
SpendA ==
    Transaction(<<TxInput(Coinbase0.id, 0)>>,
                <<TxOutput(30, Bob), TxOutput(20, Alice)>>, GenesisTime)
SpendB ==
    Transaction(<<TxInput(Coinbase0.id, 0)>>,
                <<TxOutput(BlockReward, Bob)>>, GenesisTime)

TxPool == {Coinbase0, Coinbase1, SpendA, SpendB}

RECURSIVE TxListsOfLen(_)
TxListsOfLen(n) ==
    IF n = 0 THEN {<<>>}
    ELSE {Append(l, tx) : l \in TxListsOfLen(n - 1), tx \in TxPool}

\* The transaction lists of candidate blocks: 1..MaxBlockTxs transactions,
\* no transaction twice in a block.
TxLists ==
    {l \in UNION {TxListsOfLen(n) : n \in 1..MaxBlockTxs} :
        \A i, j \in 1..Len(l) : i # j => l[i] # l[j]}

\* A block as constructed (nonce 0), or as a miner hands it over when
\* `mined` (and ProofOfWork.mine returns within MaxNonce tries).
Built(b, mined) ==
    IF ~mined THEN b
    ELSE LET nonce == MinedNonce(b)
         IN  IF nonce <= MaxNonce THEN SetNonce(b, nonce) ELSE b

\* The fields of the blocks a caller offers to a Blockchain whose chain is
\* `blocks`: the right value and a wrong one.
CandidateIndices(blocks) == {Len(blocks), WrongIndex}
CandidateHashes(blocks) ==
    {IF blocks = <<>> THEN GenesisPreviousHash
     ELSE BlockHash(blocks[Len(blocks)]), WrongHash}
CandidateTimes(blocks) ==
    IF blocks = <<>> THEN {GenesisTime}
    ELSE {blocks[Len(blocks)].timestamp, blocks[Len(blocks)].timestamp + 1}

\* The transaction lists of the blocks offered as genesis blocks:
\* Block.createGenesisBlock(coinbase).
GenesisTxLists == {<<Coinbase0>>}

\* The transaction lists of the blocks of a peer's chain.
ForkTxLists == {<<Coinbase1>>, <<Coinbase1, SpendA>>}

\* A block a peer built on the chain `blocks`.
ForkBlock(blocks, previousHash, txs, mined) ==
    Built(NewBlock(Len(blocks), previousHash,
                   IF blocks = <<>> THEN GenesisTime
                   ELSE blocks[Len(blocks)].timestamp + 1,
                   txs, InitialDifficulty, 0), mined)

ForkTxListsOn(blocks) == IF blocks = <<>> THEN GenesisTxLists ELSE ForkTxLists

(***************************************************************************)
(* The state: one Blockchain instance and the call in progress on it.      *)
(***************************************************************************)
VARIABLES
    chain,      \* Blockchain.chain
    utxoSet,    \* Blockchain.utxoSet (the map inside it)
    pc,         \* "idle", "called" (a call is made), "returned"
    call,       \* the call: [op, arg], arg the block(s) passed
    result,     \* what the call returned: "true", "false", "void", "throw"
    old,        \* chain, utxoSet and history when the call was made
    history,    \* how the chain came about: the call that set its first
                \* blocks, and the number of blocks addBlock appended since
    config,     \* Blockchain.config
    heldBlock,  \* a Block object a caller holds: its fields and its cache
    merkleTree, \* a MerkleTree a caller holds
    transaction, \* a Transaction a caller holds: its id, inputs (with
                \* their signatures and public keys), outputs and timestamp
    heap,       \* the Map objects that UTXOSet objects and callers hold
    pendingTransactions  \* ServerState.pendingTransactions

vars ==
    <<chain, utxoSet, pc, call, result, old, history, config, heldBlock,
      merkleTree, transaction, heap,
                   pendingTransactions>>

\* The configuration of new Blockchain(): the constructor's defaults
\* (times in seconds).
DefaultConfig ==
    [targetBlockTime |-> 10, difficultyAdjustmentInterval |-> 10,
     initialDifficulty |-> InitialDifficulty, blockReward |-> BlockReward]

NoCall == [op |-> "none", arg |-> <<>>]
NoHistory == [base |-> "none", added |-> 0]
NoBlock == <<>>
NoTree == <<>>
NoTransaction == <<>>
\* No UTXOSet object but the one of the Blockchain (utxoSet).
NoHeap == [maps |-> <<>>, sets |-> <<>>, views |-> <<>>]

NoOld ==
    [chain |-> <<>>, utxoSet |-> EmptyUTXOSet, history |-> NoHistory,
     heldBlock |-> NoBlock, transaction |-> NoTransaction, heap |-> NoHeap,
     pendingTransactions |-> <<>>]

Init ==
    /\ chain = <<>>
    /\ utxoSet = EmptyUTXOSet
    /\ pc = "idle"
    /\ call = NoCall
    /\ result = "none"
    /\ old = NoOld
    /\ history = NoHistory
    /\ config = DefaultConfig
    /\ heldBlock = NoBlock
    /\ merkleTree = NoTree
    /\ transaction = NoTransaction
    /\ heap = NoHeap
    /\ pendingTransactions = <<>>

\* A caller invokes a method of the instance.
Invoke(op, arg) ==
    /\ pc = "idle"
    /\ pc' = "called"
    /\ call' = [op |-> op, arg |-> arg]
    /\ UNCHANGED <<chain, utxoSet, result, old, history, config, heldBlock,
                   merkleTree, transaction, heap,
                   pendingTransactions>>

\* A caller passes a block to initializeWithGenesisBlock.
CallInitialize ==
    /\ pc = "idle"
    /\ Len(chain) < MaxChain
    /\ \E i \in {0, 1}, p \in {GenesisPreviousHash, WrongHash},
          txs \in GenesisTxLists, mined \in BOOLEAN :
           Invoke("initializeWithGenesisBlock",
                  <<Built(NewBlock(i, p, GenesisTime, txs, InitialDifficulty, 0),
                          mined)>>)

\* A caller passes a block to addBlock.
CallAddBlock ==
    /\ pc = "idle"
    /\ Len(chain) < MaxChain
    /\ \E i \in CandidateIndices(chain), p \in CandidateHashes(chain),
          t \in CandidateTimes(chain), txs \in TxLists, mined \in BOOLEAN :
           Invoke("addBlock",
                  <<Built(NewBlock(i, p, t, txs, InitialDifficulty, 0), mined)>>)

\* A caller passes a peer's chain to replaceChain: the current chain, or
\* the current chain without its last block, continued by up to two blocks
\* the peer built.
CallReplaceChain ==
    /\ pc = "idle"
    /\ Len(chain) < MaxChain
    /\ \E k \in {n \in 0..Len(chain) : n >= Len(chain) - 1} :
        LET base == SubSeq(chain, 1, k)
        IN  \/ Invoke("replaceChain", base)
            \/ /\ Len(base) < MaxChain
               /\ \E p1 \in CandidateHashes(base), txs1 \in ForkTxListsOn(base),
                     mined1 \in BOOLEAN :
                    LET one == Append(base, ForkBlock(base, p1, txs1, mined1))
                    IN  \/ Invoke("replaceChain", one)
                        \/ /\ Len(one) < MaxChain
                           /\ \E p2 \in CandidateHashes(one),
                                 txs2 \in ForkTxLists, mined2 \in BOOLEAN :
                                Invoke("replaceChain",
                                       Append(one, ForkBlock(one, p2, txs2, mined2)))

Returns(r) ==
    /\ pc' = "returned"
    /\ result' = r
    /\ old' = [chain |-> chain, utxoSet |-> utxoSet, history |-> history,
               heldBlock |-> heldBlock]
    /\ UNCHANGED <<call, config, heldBlock, merkleTree, transaction, heap,
                   pendingTransactions>>

\* initializeWithGenesisBlock without the test of the block's index.
InitializeWithGenesisBlock_AnyIndex ==
    /\ pc = "called" /\ call.op = "initializeWithGenesisBlock"
    /\ LET genesisBlock == call.arg[1]
       IN  IF Len(chain) > 0
           THEN /\ Returns("throw")
                /\ UNCHANGED <<chain, utxoSet, history>>
           ELSE /\ chain' = Append(chain, genesisBlock)
                /\ utxoSet' = UpdateUTXOSet(utxoSet, genesisBlock)
                /\ history' = [base |-> "initialize", added |-> 0]
                /\ Returns("void")

\* Blockchain.initializeWithGenesisBlock
InitializeWithGenesisBlock ==
    /\ pc = "called" /\ call.op = "initializeWithGenesisBlock"
    /\ LET genesisBlock == call.arg[1]
       IN  IF Len(chain) > 0 \/ genesisBlock.index # 0
           THEN /\ Returns("throw")
                /\ UNCHANGED <<chain, utxoSet, history>>
           ELSE /\ chain' = Append(chain, genesisBlock)
                /\ utxoSet' = UpdateUTXOSet(utxoSet, genesisBlock)
                /\ history' = [base |-> "initialize", added |-> 0]
                /\ Returns("void")

\* addBlock applying the block to the UTXO set before it validates it.
AddBlock_UpdatesBeforeValidating ==
    /\ pc = "called" /\ call.op = "addBlock"
    /\ LET block == call.arg[1]
       IN  IF Len(chain) = 0
           THEN /\ Returns("throw")
                /\ UNCHANGED <<chain, utxoSet, history>>
           ELSE IF ~IsValidNewBlock(UpdateUTXOSet(utxoSet, block), block,
                                    chain[Len(chain)])
           THEN /\ Returns("false")
                /\ utxoSet' = UpdateUTXOSet(utxoSet, block)
                /\ UNCHANGED <<chain, history>>
           ELSE /\ chain' = Append(chain, block)
                /\ utxoSet' = UpdateUTXOSet(utxoSet, block)
                /\ history' = [history EXCEPT !.added = @ + 1]
                /\ Returns("true")

\* Blockchain.addBlock; getLatestBlock throws on an empty chain.
AddBlock ==
    /\ pc = "called" /\ call.op = "addBlock"
    /\ LET block == call.arg[1]
       IN  IF Len(chain) = 0
           THEN /\ Returns("throw")
                /\ UNCHANGED <<chain, utxoSet, history>>
           ELSE IF ~IsValidNewBlock(utxoSet, block, chain[Len(chain)])
           THEN /\ Returns("false")
                /\ UNCHANGED <<chain, utxoSet, history>>
           ELSE /\ chain' = Append(chain, block)
                /\ utxoSet' = UpdateUTXOSet(utxoSet, block)
                /\ history' = [history EXCEPT !.added = @ + 1]
                /\ Returns("true")

\* replaceChain with the length test written `<` instead of `<=`.
ReplaceChain_AcceptsEqualLength ==
    /\ pc = "called" /\ call.op = "replaceChain"
    /\ LET newChain == call.arg
       IN  IF Len(newChain) < Len(chain)
           THEN /\ Returns("false")
                /\ UNCHANGED <<chain, utxoSet, history>>
           ELSE IF ~IsValidChain(newChain, EmptyUTXOSet)
           THEN /\ Returns("false")
                /\ UNCHANGED <<chain, utxoSet, history>>
           ELSE /\ chain' = newChain
                /\ utxoSet' = RebuildUTXOSet(EmptyUTXOSet, newChain)
                /\ history' = [base |-> "replaceChain", added |-> 0]
                /\ Returns("true")

\* Blockchain.replaceChain; the temporary Blockchain that validates the new
\* chain starts with a new, empty UTXOSet.
ReplaceChain ==
    /\ pc = "called" /\ call.op = "replaceChain"
    /\ LET newChain == call.arg
       IN  IF Len(newChain) <= Len(chain)
           THEN /\ Returns("false")
                /\ UNCHANGED <<chain, utxoSet, history>>
           ELSE IF ~IsValidChain(newChain, EmptyUTXOSet)
           THEN /\ Returns("false")
                /\ UNCHANGED <<chain, utxoSet, history>>
           ELSE /\ chain' = newChain
                /\ utxoSet' = RebuildUTXOSet(EmptyUTXOSet, newChain)
                /\ history' = [base |-> "replaceChain", added |-> 0]
                /\ Returns("true")

\* The caller has taken the result.
Return ==
    /\ pc = "returned"
    /\ pc' = "idle"
    /\ call' = NoCall
    /\ result' = "none"
    /\ old' = NoOld
    /\ UNCHANGED <<chain, utxoSet, history, config, heldBlock, merkleTree,
                   transaction, heap,
                   pendingTransactions>>

Next ==
    \/ CallInitialize
    \/ CallAddBlock
    \/ CallReplaceChain
    \/ InitializeWithGenesisBlock
    \/ AddBlock
    \/ ReplaceChain
    \/ Return

Spec == Init /\ [][Next]_vars

(***************************************************************************)
(* Blockchain.calculateNextDifficulty, asked on instances of every         *)
(* configuration and chain of the bounds.  The method reads the index,     *)
(* the timestamp (milliseconds) and the difficulty of the blocks only.     *)
(***************************************************************************)
\* Milliseconds between two consecutive blocks.
RetargetGaps == {1, 750, 1000, 2000, 4000, 4001}
\* config.targetBlockTime, in seconds.
TargetBlockTimes == {1, 2}

\* The chains of `n` blocks: genesis at GenesisTime, each later block a gap
\* after the one before it, the last block of difficulty `tipDifficulty`.
RECURSIVE RetargetChains(_, _)
RetargetChains(n, tipDifficulty) ==
    IF n = 0 THEN {<<>>}
    ELSE IF n = 1
    THEN {<<NewBlock(0, GenesisPreviousHash, GenesisTime, <<Coinbase0>>,
                     tipDifficulty, 0)>>}
    ELSE {Append(c, NewBlock(n - 1, BlockHash(c[n - 1]),
                             c[n - 1].timestamp + gap, <<Coinbase1>>,
                             tipDifficulty, 0)) :
            c \in RetargetChains(n - 1, InitialDifficulty), gap \in RetargetGaps}

RetargetInit ==
    /\ \E t \in TargetBlockTimes, i \in 1..MaxInterval :
          config = [DefaultConfig EXCEPT !.targetBlockTime = t,
                                         !.difficultyAdjustmentInterval = i]
    /\ \E n \in 0..MaxRetargetChain, d \in 0..MaxTipDifficulty :
          chain \in RetargetChains(n, d)
    /\ utxoSet = RebuildUTXOSet(EmptyUTXOSet, chain)
    /\ pc = "idle"
    /\ call = NoCall
    /\ result = "none"
    /\ old = NoOld
    /\ history = NoHistory
    /\ heldBlock = NoBlock
    /\ merkleTree = NoTree
    /\ transaction = NoTransaction
    /\ heap = NoHeap
    /\ pendingTransactions = <<>>

CallCalculateNextDifficulty == Invoke("calculateNextDifficulty", <<>>)

\* The value calculateNextDifficulty returns on a non-empty chain.  The
\* code's ratio actualTime / expectedTime, actualTime being milliseconds
\* / 1000, is compared as the fraction
\* (latest - adjustment) / (1000 * expectedTime).
NextDifficulty(blocks, cfg) ==
    LET latestBlock == blocks[Len(blocks)]
        interval == cfg.difficultyAdjustmentInterval
    IN  IF (latestBlock.index + 1) % interval # 0
        THEN latestBlock.difficulty
        ELSE LET adjustmentBlock == blocks[Len(blocks) - interval + 1]
                 actualMs == latestBlock.timestamp - adjustmentBlock.timestamp
                 expectedTime == cfg.targetBlockTime * interval
             IN  IF 2 * actualMs < 1000 * expectedTime
                 THEN latestBlock.difficulty + 1
                 ELSE IF actualMs > 2 * 1000 * expectedTime
                 THEN IF latestBlock.difficulty - 1 > 1
                      THEN latestBlock.difficulty - 1 ELSE 1
                 ELSE latestBlock.difficulty

\* calculateNextDifficulty raising the difficulty also at exactly half the
\* expected time (`<=` for `<`).
CalculateNextDifficulty_HalfIncluded ==
    /\ pc = "called" /\ call.op = "calculateNextDifficulty"
    /\ IF Len(chain) = 0
       THEN Returns("throw")
       ELSE LET latestBlock == chain[Len(chain)]
                interval == config.difficultyAdjustmentInterval
                actualMs == latestBlock.timestamp
                              - chain[Len(chain) - interval + 1].timestamp
            IN  IF (latestBlock.index + 1) % interval = 0
                     /\ 2 * actualMs = 1000 * config.targetBlockTime * interval
                THEN Returns(latestBlock.difficulty + 1)
                ELSE Returns(NextDifficulty(chain, config))
    /\ UNCHANGED <<chain, utxoSet, history>>

\* Blockchain.calculateNextDifficulty; getLatestBlock throws on an empty
\* chain.
CalculateNextDifficulty ==
    /\ pc = "called" /\ call.op = "calculateNextDifficulty"
    /\ IF Len(chain) = 0
       THEN Returns("throw")
       ELSE Returns(NextDifficulty(chain, config))
    /\ UNCHANGED <<chain, utxoSet, history>>

RetargetNext ==
    \/ CallCalculateNextDifficulty
    \/ CalculateNextDifficulty
    \/ Return

RetargetSpec == RetargetInit /\ [][RetargetNext]_vars

(***************************************************************************)
(* A Block object in the hands of a caller: its public fields and the      *)
(* private cache `_hash` of its hash getter, under setNonce, reads of      *)
(* `hash`, ProofOfWork.mine and ProofOfWork.verify.                        *)
(***************************************************************************)
\* `undefined`, the value of an empty cache: no digest.
Undefined == -3

MaxSetNonce == 2     \* largest nonce a caller passes to setNonce

\* The object new Block(...) returns: `_hash` is not set.
BlockObject(fields) == [fields |-> fields, cachedHash |-> Undefined]

\* The getter `hash`: the value it returns, and the object after the read.
GetHash(o) ==
    IF o.cachedHash = Undefined THEN BlockHash(o.fields) ELSE o.cachedHash

AfterGetHash(o) == [o EXCEPT !.cachedHash = GetHash(o)]

\* setNonce that leaves the cache as it is.
ObjectSetNonce_KeepsCache(o, nonce) ==
    [o EXCEPT !.fields = SetNonce(o.fields, nonce)]

\* Block.setNonce on the object: writes the nonce, clears the cache.
ObjectSetNonce(o, nonce) ==
    [fields |-> SetNonce(o.fields, nonce), cachedHash |-> Undefined]

\* Block.hasValidHash / ProofOfWork.verify on the object: both read the
\* getter.
ObjectVerify(o) == StartsWithZeros(GetHash(o), o.fields.difficulty)

\* The loop of ProofOfWork.mine from `nonce` on: set the nonce, read the
\* hash, return on success, else go on with nonce + 1; past the last nonce
\* (MaxNonce in the model) the loop throws.  The MiningResult is modelled
\* by its nonce, hash and attempts.
RECURSIVE MineLoop(_, _)
MineLoop(o, nonce) ==
    LET set == ObjectSetNonce(o, nonce)
        hash == GetHash(set)
        read == AfterGetHash(set)
    IN  IF StartsWithZeros(hash, o.fields.difficulty)
        THEN [object |-> read,
              returned |-> [status |-> "returned", nonce |-> nonce,
                            hash |-> hash, attempts |-> nonce]]
        ELSE IF nonce + 1 > MaxNonce
        THEN [object |-> read, returned |-> [status |-> "throw"]]
        ELSE MineLoop(read, nonce + 1)

\* mine with the loop starting at nonce 1.
MineObject_FromOne(o) == MineLoop(o, 1)

\* mine that has incremented the nonce once more when it returns.
MineObject_OneTooFar(o) ==
    LET m == MineLoop(o, 0)
    IN  IF m.returned.status = "throw" THEN m
        ELSE [m EXCEPT !.object = ObjectSetNonce(m.object, m.returned.nonce + 1)]

\* ProofOfWork.mine(block): `let nonce = 0` and the loop.
MineObject(o) == MineLoop(o, 0)

\* The blocks callers construct.
BlockFields ==
    {NewBlock(i, p, t, txs, d, 0) :
        i \in {0, 1}, p \in {GenesisPreviousHash, WrongHash},
        t \in {GenesisTime, GenesisTime + 1},
        txs \in {<<Coinbase0>>, <<Coinbase1, SpendA>>},
        d \in 0..2}

BlockInit ==
    /\ heldBlock \in {BlockObject(f) : f \in BlockFields}
    /\ chain = <<>>
    /\ utxoSet = EmptyUTXOSet
    /\ pc = "idle"
    /\ call = NoCall
    /\ result = "none"
    /\ old = NoOld
    /\ history = NoHistory
    /\ config = DefaultConfig
    /\ merkleTree = NoTree
    /\ transaction = NoTransaction
    /\ heap = NoHeap
    /\ pendingTransactions = <<>>

\* A method of the held block returns r and leaves the object as o.
BlockReturns(r, o) ==
    /\ pc' = "returned"
    /\ result' = r
    /\ old' = [NoOld EXCEPT !.heldBlock = heldBlock]
    /\ heldBlock' = o
    /\ UNCHANGED <<call, chain, utxoSet, history, config, merkleTree,
                   transaction, heap,
                   pendingTransactions>>

CallGetHash == Invoke("hash", <<>>)
CallSetNonce == \E n \in 0..MaxSetNonce : Invoke("setNonce", <<n>>)
CallMine == Invoke("mine", <<>>)
CallVerify == Invoke("verify", <<>>)

\* A read of block.hash
BlockGetHash ==
    /\ pc = "called" /\ call.op = "hash"
    /\ BlockReturns(GetHash(heldBlock), AfterGetHash(heldBlock))

\* block.setNonce(nonce)
BlockSetNonce ==
    /\ pc = "called" /\ call.op = "setNonce"
    /\ BlockReturns("void", ObjectSetNonce(heldBlock, call.arg[1]))

\* ProofOfWork.mine(block)
ProofOfWorkMine ==
    /\ pc = "called" /\ call.op = "mine"
    /\ BlockReturns(MineObject(heldBlock).returned, MineObject(heldBlock).object)

\* ProofOfWork.verify(block)
ProofOfWorkVerify ==
    /\ pc = "called" /\ call.op = "verify"
    /\ BlockReturns(ObjectVerify(heldBlock), AfterGetHash(heldBlock))

BlockNext ==
    \/ CallGetHash
    \/ CallSetNonce
    \/ CallMine
    \/ CallVerify
    \/ BlockGetHash
    \/ BlockSetNonce
    \/ ProofOfWorkMine
    \/ ProofOfWorkVerify
    \/ Return

BlockSpec == BlockInit /\ [][BlockNext]_vars

\* The committed fields of a block other than the nonce are public and
\* writable: a caller assigns one of them another value.
WrittenFields(o) ==
    {[o EXCEPT !.fields.index = @ + 1],
     [o EXCEPT !.fields.previousHash =
                  IF @ = WrongHash THEN GenesisPreviousHash ELSE WrongHash],
     [o EXCEPT !.fields.timestamp = @ + 1],
     [o EXCEPT !.fields.difficulty = @ + 1],
     [o EXCEPT !.fields.transactions =
                  IF @ = <<Coinbase0>> THEN <<Coinbase1>> ELSE <<Coinbase0>>]}

CallWriteField ==
    /\ heldBlock.fields.index <= 1
    /\ heldBlock.fields.timestamp <= GenesisTime + 1
    /\ heldBlock.fields.difficulty <= 2
    /\ \E o \in WrittenFields(heldBlock) : Invoke("write", <<o>>)

\* block.<field> = value
BlockWriteField ==
    /\ pc = "called" /\ call.op = "write"
    /\ BlockReturns("void", call.arg[1])

BlockWriteNext ==
    \/ CallGetHash
    \/ CallSetNonce
    \/ CallWriteField
    \/ BlockGetHash
    \/ BlockSetNonce
    \/ BlockWriteField
    \/ Return

BlockWriteSpec == BlockInit /\ [][BlockWriteNext]_vars

(***************************************************************************)
(* blockchain/Miner.ts: a miner builds a block on the tip of a Blockchain  *)
(* and the caller passes it to addBlock at once.                           *)
(***************************************************************************)
\* Transaction.getInputAmount, for inputs that are all in the UTXO set.
RECURSIVE GetInputAmount(_, _)
GetInputAmount(utxos, inputs) ==
    IF inputs = <<>> THEN 0
    ELSE utxos[MakeKey(Head(inputs).txId, Head(inputs).outputIndex)].amount
             + GetInputAmount(utxos, Tail(inputs))

\* Transaction.getOutputAmount
RECURSIVE GetOutputAmount(_)
GetOutputAmount(outputs) ==
    IF outputs = <<>> THEN 0
    ELSE Head(outputs).amount + GetOutputAmount(Tail(outputs))

\* Transaction.calculateFee
CalculateFee(utxos, tx) ==
    GetInputAmount(utxos, tx.inputs) - GetOutputAmount(tx.outputs)

\* Miner.calculateTotalFees: coinbase transactions and transactions with an
\* input that is not in the UTXO set (calculateFee throws) are skipped.
RECURSIVE CalculateTotalFees(_, _)
CalculateTotalFees(utxos, txs) ==
    IF txs = <<>> THEN 0
    ELSE (IF IsCoinbase(Head(txs)) \/ ~IsValidTransaction(utxos, Head(txs))
          THEN 0 ELSE CalculateFee(utxos, Head(txs)))
             + CalculateTotalFees(utxos, Tail(txs))

\* Miner.mineBlock(transactions) for the wallet `address`, on a non-empty
\* chain, the clock reading `now` when the block is created: the object and
\* what ProofOfWork.mine returned.
\* createCoinbase throws when the reward is not positive (new TxOutput).
MineBlock(blocks, utxos, cfg, address, transactions, now) ==
    LET latestBlock == blocks[Len(blocks)]
        minerReward == cfg.blockReward + CalculateTotalFees(utxos, transactions)
        coinbaseTx == CreateCoinbase(address, minerReward, latestBlock.index + 1, now)
        newBlock == NewBlock(latestBlock.index + 1, BlockHash(latestBlock), now,
                             <<coinbaseTx>> \o transactions,
                             NextDifficulty(blocks, cfg), 0)
    IN  IF minerReward <= 0
        THEN [object |-> NoBlock, returned |-> [status |-> "throw"]]
        ELSE MineObject(BlockObject(newBlock))

\* The lists a caller passes to mineBlock: transactions that spend only
\* outpoints of the UTXO set.
MinerTxLists(utxos) ==
    {l \in {<<>>, <<SpendA>>, <<SpendB>>, <<SpendA, SpendB>>} :
        \A i \in 1..Len(l) : IsValidTransaction(utxos, l[i])}

\* The clock readings when a miner builds on `blocks`: the clock has not
\* gone back since the tip was created.
MinerClock(blocks) ==
    {blocks[Len(blocks)].timestamp, blocks[Len(blocks)].timestamp + 1}

\* A caller has a miner mine a block (mineEmptyBlock is mineBlock([])) and
\* passes the block to addBlock.
CallMinerAddBlock ==
    /\ chain # <<>>
    /\ pc = "idle"
    /\ Len(chain) < MaxChain
    /\ \E txs \in MinerTxLists(utxoSet), now \in MinerClock(chain) :
          LET mined == MineBlock(chain, utxoSet, config, Alice, txs, now)
          IN  /\ mined.returned.status = "returned"
              /\ Invoke("addBlock", <<mined.object.fields>>)

MinerNext ==
    \/ CallInitialize
    \/ CallMinerAddBlock
    \/ InitializeWithGenesisBlock
    \/ AddBlock
    \/ Return

MinerSpec == Init /\ [][MinerNext]_vars

\* The candidates a caller passes to mineBlock: transactions with a fee of
\* zero, a transaction with a fee of 10, a coinbase, a transaction that
\* spends an outpoint no transaction created, and one whose outputs exceed
\* its input by the block reward.
SpendWithFee ==
    Transaction(<<TxInput(Coinbase0.id, 0)>>, <<TxOutput(40, Bob)>>, GenesisTime)
SpendUnknown ==
    Transaction(<<TxInput(WrongHash, 0)>>, <<TxOutput(40, Bob)>>, GenesisTime)
Overspend ==
    Transaction(<<TxInput(Coinbase0.id, 0)>>,
                <<TxOutput(2 * BlockReward, Bob)>>, GenesisTime)

MinerCandidates == {SpendA, SpendWithFee, Coinbase1, SpendUnknown, Overspend}

MinerCandidateLists ==
    {<<>>} \cup {<<tx>> : tx \in MinerCandidates}
        \cup {pair \in MinerCandidates \X MinerCandidates : pair[1] # pair[2]}

\* Miner.mineBlock as a call of its own: what it returns, a block that was
\* mined or nothing when it throws.
MineBlockResult(mined) ==
    IF mined.returned.status = "throw" THEN [status |-> "throw"]
    ELSE [status |-> "block", block |-> mined.object.fields,
          miningResult |-> mined.returned]

\* A caller has a miner (of wallet Alice) mine the candidates; the calls
\* are those in which ProofOfWork.mine ends within MaxNonce tries.
CallMineBlock ==
    /\ pc = "idle"
    /\ chain # <<>>
    /\ \E txs \in MinerCandidateLists :
          /\ \A now \in MinerClock(chain) :
                LET mined == MineBlock(chain, utxoSet, config, Alice, txs, now)
                IN  mined.object = NoBlock \/ mined.returned.status = "returned"
          /\ Invoke("mineBlock", <<txs>>)

\* miner.mineBlock(transactions)
MinerMineBlock ==
    /\ pc = "called" /\ call.op = "mineBlock"
    /\ \E now \in MinerClock(chain) :
          Returns(MineBlockResult(
                      MineBlock(chain, utxoSet, config, Alice, call.arg[1], now)))
    /\ UNCHANGED <<chain, utxoSet, history>>

MineBlockNext ==
    \/ CallInitialize
    \/ CallMinerAddBlock
    \/ CallMineBlock
    \/ InitializeWithGenesisBlock
    \/ AddBlock
    \/ MinerMineBlock
    \/ Return

MineBlockSpec == Init /\ [][MineBlockNext]_vars

\* The difficulties of the blocks a caller offers to addBlock: that of the
\* tip, one less and one more.
CandidateDifficulties(blocks) ==
    {d \in {blocks[Len(blocks)].difficulty + k : k \in {-1, 0, 1}} : d >= 0}

\* A caller passes addBlock a block that continues the chain, mined at a
\* difficulty of the caller's choice.
CallAddBlockOfDifficulty ==
    /\ pc = "idle"
    /\ chain # <<>>
    /\ Len(chain) < MaxChain
    /\ \E d \in CandidateDifficulties(chain), t \in CandidateTimes(chain),
          txs \in TxLists :
           Invoke("addBlock",
                  <<Built(NewBlock(Len(chain), BlockHash(chain[Len(chain)]), t,
                                   txs, d, 0), TRUE)>>)

DifficultyNext ==
    \/ CallInitialize
    \/ CallAddBlockOfDifficulty
    \/ InitializeWithGenesisBlock
    \/ AddBlock
    \/ Return

DifficultySpec == Init /\ [][DifficultyNext]_vars

(***************************************************************************)
(* merkle/MerkleTree.ts: the tree of nodes, getProof and verify.           *)
(***************************************************************************)
MaxLeaves == 5       \* longest id list a MerkleTree is built from

\* The ids callers build trees from and ask proofs for.
MerkleIds == {1, 2, 3}

\* A MerkleNode: a leaf has neither left nor right.
LeafNode(hash) == [hash |-> hash, children |-> <<>>]
\* A parent whose hash does not depend on the order of its children.
ParentNode_Unordered(left, right) ==
    [hash |-> IF left.hash <= right.hash
              THEN Sha256(<<left.hash, right.hash>>)
              ELSE Sha256(<<right.hash, left.hash>>),
     children |-> <<left, right>>]

ParentNode(left, right) ==
    [hash |-> Sha256(<<left.hash, right.hash>>), children |-> <<left, right>>]

RECURSIVE LeafNodes(_)
LeafNodes(hashes) ==
    IF hashes = <<>> THEN <<>>
    ELSE <<LeafNode(Head(hashes))>> \o LeafNodes(Tail(hashes))

\* The loop of buildTreeFromNodes: nodes paired into parents, the last node
\* with itself when it has no partner.
RECURSIVE ParentNodes(_)
ParentNodes(nodes) ==
    IF nodes = <<>> THEN <<>>
    ELSE IF Len(nodes) = 1 THEN <<ParentNode(nodes[1], nodes[1])>>
    ELSE <<ParentNode(nodes[1], nodes[2])>> \o ParentNodes(Tail(Tail(nodes)))

\* MerkleTree.buildTreeFromNodes
RECURSIVE BuildNodeTree(_)
BuildNodeTree(nodes) ==
    IF Len(nodes) = 1 THEN nodes[1] ELSE BuildNodeTree(ParentNodes(nodes))

\* new MerkleTree(data), for a non-empty list; `data` is kept to tell what
\* the tree was built from.
MerkleTree(data) ==
    [data |-> data,
     leaves |-> MerkleLeaves(data),
     root |-> BuildNodeTree(LeafNodes(MerkleLeaves(data)))]

\* MerkleTree.getRoot
GetRoot(tree) == tree.root.hash

\* buildProof that looks at the left subtree only.
RECURSIVE BuildProof_LeftOnly(_, _)
BuildProof_LeftOnly(targetHash, node) ==
    IF node.children = <<>>
    THEN [found |-> node.hash = targetHash, proof |-> <<>>]
    ELSE LET leftProof == BuildProof_LeftOnly(targetHash, node.children[1])
         IN  IF leftProof.found
             THEN [found |-> TRUE,
                   proof |-> Append(leftProof.proof,
                                    [hash |-> node.children[2].hash,
                                     position |-> "right"])]
             ELSE [found |-> FALSE, proof |-> <<>>]

\* MerkleTree.buildProof: found is FALSE where the code returns null.
RECURSIVE BuildProof(_, _)
BuildProof(targetHash, node) ==
    IF node.children = <<>>
    THEN [found |-> node.hash = targetHash, proof |-> <<>>]
    ELSE LET leftProof == BuildProof(targetHash, node.children[1])
         IN  IF leftProof.found
             THEN [found |-> TRUE,
                   proof |-> Append(leftProof.proof,
                                    [hash |-> node.children[2].hash,
                                     position |-> "right"])]
             ELSE LET rightProof == BuildProof(targetHash, node.children[2])
                  IN  IF rightProof.found
                      THEN [found |-> TRUE,
                            proof |-> Append(rightProof.proof,
                                             [hash |-> node.children[1].hash,
                                              position |-> "left"])]
                      ELSE [found |-> FALSE, proof |-> <<>>]

\* MerkleTree.getProof: it throws when found is FALSE.
GetProof(tree, data) == BuildProof(Sha256(<<data>>), tree.root)

\* The loop of MerkleTree.verify from proof element i on.
RECURSIVE VerifyFrom(_, _, _)
VerifyFrom(hash, proof, i) ==
    IF i > Len(proof) THEN hash
    ELSE VerifyFrom(IF proof[i].position = "left"
                    THEN Sha256(<<proof[i].hash, hash>>)
                    ELSE Sha256(<<hash, proof[i].hash>>),
                    proof, i + 1)

\* MerkleTree.verify
MerkleVerify(data, proof, root) == VerifyFrom(Sha256(<<data>>), proof, 1) = root

RECURSIVE IdListsOfLen(_)
IdListsOfLen(n) ==
    IF n = 0 THEN {<<>>}
    ELSE {Append(l, id) : l \in IdListsOfLen(n - 1), id \in MerkleIds}

MerkleInit ==
    /\ \E n \in 1..MaxLeaves : \E data \in IdListsOfLen(n) :
          merkleTree = MerkleTree(data)
    /\ chain = <<>>
    /\ utxoSet = EmptyUTXOSet
    /\ pc = "idle"
    /\ call = NoCall
    /\ result = "none"
    /\ old = NoOld
    /\ history = NoHistory
    /\ config = DefaultConfig
    /\ heldBlock = NoBlock
    /\ transaction = NoTransaction
    /\ heap = NoHeap
    /\ pendingTransactions = <<>>

\* What a caller may do to a proof element: put another hash, or the other
\* side.
AlteredElements(e) ==
    {[e EXCEPT !.hash = (@ + 1) % HashSpace],
     [e EXCEPT !.position = IF @ = "left" THEN "right" ELSE "left"]}

\* The triples a caller passes to verify for the id `id` of the tree: the
\* id, its proof and the root, or the three with one of them altered.
VerifyArguments(tree, id) ==
    LET proof == GetProof(tree, id).proof
        root == GetRoot(tree)
    IN  {<<id, proof, root>>}
          \cup {<<other, proof, root>> : other \in MerkleIds \ {id}}
          \cup {<<id, proof, (root + 1) % HashSpace>>}
          \cup UNION {{<<id, [proof EXCEPT ![i] = e], root>> :
                          e \in AlteredElements(proof[i])} : i \in 1..Len(proof)}

CallGetProof == \E id \in MerkleIds : Invoke("getProof", <<id>>)

CallGetRoot == Invoke("getRoot", <<>>)

\* tree.getRoot()
MerkleGetRoot ==
    /\ pc = "called" /\ call.op = "getRoot"
    /\ Returns(GetRoot(merkleTree))
    /\ UNCHANGED <<chain, utxoSet, history>>

CallMerkleVerify ==
    \E id \in MerkleIds :
        /\ GetProof(merkleTree, id).found
        /\ \E args \in VerifyArguments(merkleTree, id) : Invoke("verify", args)

\* tree.getProof(data)
MerkleGetProof ==
    /\ pc = "called" /\ call.op = "getProof"
    /\ LET proof == GetProof(merkleTree, call.arg[1])
       IN  IF proof.found
           THEN Returns([status |-> "returned", proof |-> proof.proof])
           ELSE Returns([status |-> "throw"])
    /\ UNCHANGED <<chain, utxoSet, history>>

\* MerkleTree.verify(data, proof, root)
MerkleVerifyProof ==
    /\ pc = "called" /\ call.op = "verify"
    /\ IF MerkleVerify(call.arg[1], call.arg[2], call.arg[3])
       THEN Returns("true")
       ELSE Returns("false")
    /\ UNCHANGED <<chain, utxoSet, history>>

MerkleNext ==
    \/ CallGetProof
    \/ CallGetRoot
    \/ CallMerkleVerify
    \/ MerkleGetProof
    \/ MerkleGetRoot
    \/ MerkleVerifyProof
    \/ Return

MerkleSpec == MerkleInit /\ [][MerkleNext]_vars

(***************************************************************************)
(* crypto/signature.ts, wallet/Wallet.ts, the signature fields of          *)
(* transaction/TxInput.ts, and TransactionSigner as docs/ARTICLE_PART1.md  *)
(* lists it.                                                               *)
(***************************************************************************)
NoSignature == <<>>     \* '', the signature of a new TxInput
NoPublicKey == 0        \* '', the public key of a new TxInput

\* Hash.ripemd160: a digest other than sha256.
Ripemd160(data) == Mix(HexBase + Len(data), data)

\* Signature.getPublicKeyFromPrivate: the curve point of the private key, a
\* one-way image of it that is never the empty string.
GetPublicKeyFromPrivate(privateKey) ==
    1 + (Mix(HexLen, <<privateKey>>) % (HashSpace - 1))

\* Signature.sign(data, privateKey): the ECDSA signature of sha256(data);
\* it stands for that digest and for the key pair that made it.
SignatureSign(data, privateKey) ==
    <<Sha256(data), GetPublicKeyFromPrivate(privateKey)>>

\* Signature.verify that does not look at the data.
SignatureVerify_AnyData(data, signature, publicKey) ==
    /\ Len(signature) = 2
    /\ publicKey # NoPublicKey
    /\ signature[2] = publicKey

\* Signature.verify(data, signature, publicKey); what throws inside (an
\* empty or malformed key or signature) is caught and gives false.
SignatureVerify(data, signature, publicKey) ==
    /\ Len(signature) = 2
    /\ publicKey # NoPublicKey
    /\ signature[1] = Sha256(data)
    /\ signature[2] = publicKey

\* Wallet.generateAddress: Base58(RIPEMD160(SHA256(publicKey))), the number
\* the base-58 digits write.
GenerateAddress(publicKey) == Ripemd160(<<Sha256(<<publicKey>>)>>)

\* new Wallet(privateKey)
Wallet(privateKey) ==
    [privateKey |-> privateKey,
     publicKey |-> GetPublicKeyFromPrivate(privateKey),
     address |-> GenerateAddress(GetPublicKeyFromPrivate(privateKey))]

\* wallet.sign(data)
WalletSign(wallet, data) == SignatureSign(data, wallet.privateKey)

\* new TxInput(txId, outputIndex), with the fields a signer fills in.
UnsignedTxInput(txId, outputIndex) ==
    [txId |-> txId, outputIndex |-> outputIndex,
     signature |-> NoSignature, publicKey |-> NoPublicKey]

\* TxInput.isSigned that never finds a signature.
IsSigned_Never(input) == FALSE

\* TxInput.isSigned (the script of an input is set together with its
\* signature and public key, by setSignature)
IsSigned(input) == Len(input.signature) > 0 /\ input.publicKey # NoPublicKey

\* TxInput.setSignature
SetSignature(input, signature, publicKey) ==
    [input EXCEPT !.signature = signature, !.publicKey = publicKey]

\* transaction.getContentForSigning()
ContentOf(tx) == GetContentForSigning(tx.inputs, tx.outputs, tx.timestamp)

\* What the signing methods return: the transaction as they leave it, and
\* the returned value ("throw" when they throw).
Signed(tx, returned) == [transaction |-> tx, returned |-> returned]

\* TransactionSigner.signInput(transaction, inputIndex, wallet)
SignInput(tx, inputIndex, wallet) ==
    IF inputIndex < 0 \/ inputIndex >= Len(tx.inputs) THEN Signed(tx, "false")
    ELSE IF IsSigned(tx.inputs[inputIndex + 1]) THEN Signed(tx, "true")
    ELSE Signed([tx EXCEPT !.inputs[inputIndex + 1] =
                    SetSignature(@, WalletSign(wallet, ContentOf(tx)),
                                 wallet.publicKey)],
                "true")

\* The loop of signTransaction and signTransactionWithWallets: every input
\* not yet signed is signed by wallets[i]; then the id is calculated again.
SignEach(tx, wallets) ==
    LET txData == ContentOf(tx)
        inputs == [i \in 1..Len(tx.inputs) |->
                     IF IsSigned(tx.inputs[i]) THEN tx.inputs[i]
                     ELSE SetSignature(tx.inputs[i],
                                       WalletSign(wallets[i], txData),
                                       wallets[i].publicKey)]
    IN  Signed([tx EXCEPT !.inputs = inputs,
                          !.id = CalculateId(inputs, tx.outputs, tx.timestamp)],
               "transaction")

\* TransactionSigner.signTransaction(transaction, wallet)
SignTransaction(tx, wallet) ==
    SignEach(tx, [i \in 1..Len(tx.inputs) |-> wallet])

\* TransactionSigner.signTransactionWithWallets(transaction, wallets)
SignTransactionWithWallets(tx, wallets) ==
    IF Len(wallets) # Len(tx.inputs) THEN Signed(tx, "throw")
    ELSE SignEach(tx, wallets)

\* The loop of signTransactionWithWalletMap from input i on.
RECURSIVE SignWithWalletMapFrom(_, _, _, _, _)
SignWithWalletMapFrom(tx, txData, walletMap, utxos, i) ==
    IF i > Len(tx.inputs)
    THEN Signed([tx EXCEPT !.id = CalculateId(tx.inputs, tx.outputs,
                                              tx.timestamp)],
                "transaction")
    ELSE LET input == tx.inputs[i]
             utxoKey == MakeKey(input.txId, input.outputIndex)
         IN  IF IsSigned(input)
             THEN SignWithWalletMapFrom(tx, txData, walletMap, utxos, i + 1)
             ELSE IF utxoKey \notin DOMAIN utxos THEN Signed(tx, "throw")
             ELSE IF utxos[utxoKey].address \notin DOMAIN walletMap
                  THEN Signed(tx, "throw")
             ELSE LET wallet == walletMap[utxos[utxoKey].address]
                  IN  SignWithWalletMapFrom(
                          [tx EXCEPT !.inputs[i] =
                              SetSignature(@, WalletSign(wallet, txData),
                                           wallet.publicKey)],
                          txData, walletMap, utxos, i + 1)

\* TransactionSigner.signTransactionWithWalletMap(transaction, walletMap,
\* utxoSet)
SignTransactionWithWalletMap(tx, walletMap, utxos) ==
    SignWithWalletMapFrom(tx, ContentOf(tx), walletMap, utxos, 1)

\* The loop of verifyTransaction from input i on.
RECURSIVE VerifyInputsFrom(_, _, _, _)
VerifyInputsFrom(tx, txData, utxos, i) ==
    IF i > Len(tx.inputs) THEN TRUE
    ELSE LET input == tx.inputs[i]
             utxoKey == MakeKey(input.txId, input.outputIndex)
         IN  IF ~IsSigned(input) THEN FALSE
             ELSE IF ~SignatureVerify(txData, input.signature, input.publicKey)
                  THEN FALSE
             ELSE IF utxoKey \notin DOMAIN utxos THEN FALSE
             ELSE IF GenerateAddress(input.publicKey) # utxos[utxoKey].address
                  THEN FALSE
             ELSE VerifyInputsFrom(tx, txData, utxos, i + 1)

\* TransactionSigner.verifyTransaction(transaction, utxoSet)
VerifyTransaction(tx, utxos) ==
    IF IsCoinbase(tx) THEN TRUE
    ELSE VerifyInputsFrom(tx, ContentOf(tx), utxos, 1)

(***************************************************************************)
(* A transaction under signature: a caller holds a Transaction and a UTXO  *)
(* map, has it signed by wallets, writes its outputs, and has it verified. *)
(* `history` is here the set of output lists the transaction had when a    *)
(* call signed one of its inputs.                                          *)
(***************************************************************************)
PrivateKeys == {1, 2}
Wallets == {Wallet(k) : k \in PrivateKeys}
AliceWallet == Wallet(1)
BobWallet == Wallet(2)
AttackerAddress == Wallet(3).address

\* 'tx_alice' and 'tx_bob', the transactions the inputs refer to.
SignerTxIds == <<11, 12>>

SignerInputLists ==
    {<<UnsignedTxInput(SignerTxIds[1], 0)>>,
     <<UnsignedTxInput(SignerTxIds[1], 0), UnsignedTxInput(SignerTxIds[2], 0)>>,
     <<UnsignedTxInput(CoinbaseTxId, 0)>>}

\* The UTXO maps: each owner has their own outpoint; Bob's is missing; Bob
\* owns both.
SignerUTXOSets ==
    {UTXOAdd(UTXOAdd(EmptyUTXOSet, SignerTxIds[1], 0,
                     TxOutput(50, AliceWallet.address)),
             SignerTxIds[2], 0, TxOutput(50, BobWallet.address)),
     UTXOAdd(EmptyUTXOSet, SignerTxIds[1], 0, TxOutput(50, AliceWallet.address)),
     UTXOAdd(UTXOAdd(EmptyUTXOSet, SignerTxIds[1], 0,
                     TxOutput(50, BobWallet.address)),
             SignerTxIds[2], 0, TxOutput(50, BobWallet.address))}

\* The output list the transaction is built with, and what a caller may
\* write over it: another amount, another address, one more output, one
\* output fewer.
BuiltOutputs == <<TxOutput(45, BobWallet.address)>>

OutputLists ==
    {BuiltOutputs,
     <<TxOutput(100, BobWallet.address)>>,
     <<TxOutput(45, AttackerAddress)>>,
     <<TxOutput(45, BobWallet.address), TxOutput(5, AttackerAddress)>>,
     <<>>}

SignerInit ==
    /\ \E inputs \in SignerInputLists :
          transaction = Transaction(inputs, BuiltOutputs, GenesisTime)
    /\ heap = NoHeap
    /\ pendingTransactions = <<>>
    /\ utxoSet \in SignerUTXOSets
    /\ history = {}
    /\ chain = <<>>
    /\ pc = "idle"
    /\ call = NoCall
    /\ result = "none"
    /\ old = NoOld
    /\ config = DefaultConfig
    /\ heldBlock = NoBlock
    /\ merkleTree = NoTree

\* A call on the transaction returns r and leaves it as tx.
SignerReturns(r, tx) ==
    /\ pc' = "returned"
    /\ result' = r
    /\ old' = [NoOld EXCEPT !.transaction = transaction]
    /\ transaction' = tx
    /\ history' =
          IF \E i \in 1..Len(tx.inputs) :
                 /\ transaction.inputs[i].signature = NoSignature
                 /\ tx.inputs[i].signature # NoSignature
          THEN history \cup {transaction.outputs}
          ELSE history
    /\ UNCHANGED <<call, chain, utxoSet, config, heldBlock, merkleTree, heap,
                   pendingTransactions>>

WalletLists == {<<w>> : w \in Wallets} \cup (Wallets \X Wallets)

\* new Map of the wallets `ws`, by their addresses.
WalletMap(ws) ==
    [a \in {w.address : w \in ws} |-> CHOOSE w \in ws : w.address = a]

CallSignInput ==
    \E i \in -1..2, w \in Wallets : Invoke("signInput", <<i, w>>)

CallSignTransaction == \E w \in Wallets : Invoke("signTransaction", <<w>>)

CallSignTransactionWithWallets ==
    \E ws \in WalletLists : Invoke("signTransactionWithWallets", <<ws>>)

CallSignTransactionWithWalletMap ==
    \E ws \in SUBSET Wallets :
        Invoke("signTransactionWithWalletMap", <<WalletMap(ws)>>)

CallVerifyTransaction == Invoke("verifyTransaction", <<>>)

\* A caller writes the outputs of the transaction (transaction.outputs[0] =
\* new TxOutput(...), push, pop).
CallWriteOutputs ==
    \E outputs \in OutputLists \ {transaction.outputs} :
        Invoke("writeOutputs", <<outputs>>)

SignerSignInput ==
    /\ pc = "called" /\ call.op = "signInput"
    /\ LET r == SignInput(transaction, call.arg[1], call.arg[2])
       IN  SignerReturns(r.returned, r.transaction)

SignerSignTransaction ==
    /\ pc = "called" /\ call.op = "signTransaction"
    /\ LET r == SignTransaction(transaction, call.arg[1])
       IN  SignerReturns(r.returned, r.transaction)

SignerSignTransactionWithWallets ==
    /\ pc = "called" /\ call.op = "signTransactionWithWallets"
    /\ LET r == SignTransactionWithWallets(transaction, call.arg[1])
       IN  SignerReturns(r.returned, r.transaction)

SignerSignTransactionWithWalletMap ==
    /\ pc = "called" /\ call.op = "signTransactionWithWalletMap"
    /\ LET r == SignTransactionWithWalletMap(transaction, call.arg[1], utxoSet)
       IN  SignerReturns(r.returned, r.transaction)

SignerVerifyTransaction ==
    /\ pc = "called" /\ call.op = "verifyTransaction"
    /\ SignerReturns(IF VerifyTransaction(transaction, utxoSet)
                     THEN "true" ELSE "false",
                     transaction)

SignerWriteOutputs ==
    /\ pc = "called" /\ call.op = "writeOutputs"
    /\ SignerReturns("void", [transaction EXCEPT !.outputs = call.arg[1]])

SignerNext ==
    \/ CallSignInput
    \/ CallSignTransaction
    \/ CallSignTransactionWithWallets
    \/ CallSignTransactionWithWalletMap
    \/ CallVerifyTransaction
    \/ CallWriteOutputs
    \/ SignerSignInput
    \/ SignerSignTransaction
    \/ SignerSignTransactionWithWallets
    \/ SignerSignTransactionWithWalletMap
    \/ SignerVerifyTransaction
    \/ SignerWriteOutputs
    \/ Return

SignerSpec == SignerInit /\ [][SignerNext]_vars

(***************************************************************************)
(* The record form of a transaction: toJSON and fromJSON of TxInput,       *)
(* TxOutput and Transaction.  The empty string and 0 are the values that   *)
(* `||` replaces.                                                          *)
(***************************************************************************)
TxInputToJSON(input) ==
    [txId |-> input.txId, outputIndex |-> input.outputIndex,
     signature |-> input.signature, publicKey |-> input.publicKey]

\* json.signature || '' and json.publicKey || ''
TxInputFromJSON(json) ==
    [txId |-> json.txId, outputIndex |-> json.outputIndex,
     signature |-> IF json.signature = NoSignature THEN NoSignature
                   ELSE json.signature,
     publicKey |-> IF json.publicKey = NoPublicKey THEN NoPublicKey
                   ELSE json.publicKey]

TxOutputToJSON(output) == [amount |-> output.amount, address |-> output.address]

TxOutputFromJSON(json) == TxOutput(json.amount, json.address)

\* transaction.toJSON()
ToJSON(tx) ==
    [id |-> tx.id,
     inputs |-> [i \in 1..Len(tx.inputs) |-> TxInputToJSON(tx.inputs[i])],
     outputs |-> [i \in 1..Len(tx.outputs) |-> TxOutputToJSON(tx.outputs[i])],
     timestamp |-> tx.timestamp]

\* A fromJSON that takes the timestamp of the record whatever it is.
FromJSONTimestamp_Kept(json, now) == json.timestamp

\* json.timestamp || Date.now()
FromJSONTimestamp(json, now) ==
    IF json.timestamp = 0 THEN now ELSE json.timestamp

\* Transaction.fromJSON(json), at clock reading `now`: the constructor
\* throws on an empty list and calculates the id.
FromJSON(json, now) ==
    LET inputs == [i \in 1..Len(json.inputs) |-> TxInputFromJSON(json.inputs[i])]
        outputs == [i \in 1..Len(json.outputs) |-> TxOutputFromJSON(json.outputs[i])]
    IN  IF Len(inputs) = 0 \/ Len(outputs) = 0 THEN [status |-> "throw"]
        ELSE [status |-> "transaction",
              transaction |->
                  Transaction(inputs, outputs, FromJSONTimestamp(json, now))]

\* The timestamps a transaction is constructed with, and the readings of
\* Date.now().
TxTimestamps == {0, GenesisTime}
FromJSONClock == {GenesisTime, GenesisTime + 1}

RoundTripInit ==
    /\ \E inputs \in SignerInputLists, timestamp \in TxTimestamps :
          transaction = Transaction(inputs, BuiltOutputs, timestamp)
    /\ heap = NoHeap
    /\ pendingTransactions = <<>>
    /\ utxoSet \in SignerUTXOSets
    /\ history = {}
    /\ chain = <<>>
    /\ pc = "idle"
    /\ call = NoCall
    /\ result = "none"
    /\ old = NoOld
    /\ config = DefaultConfig
    /\ heldBlock = NoBlock
    /\ merkleTree = NoTree

\* A caller takes the transaction through its record form.
CallFromJSON == Invoke("fromJSON", <<ToJSON(transaction)>>)

\* Transaction.fromJSON(json)
TransactionFromJSON ==
    /\ pc = "called" /\ call.op = "fromJSON"
    /\ \E now \in FromJSONClock :
          SignerReturns(FromJSON(call.arg[1], now), transaction)

RoundTripNext ==
    \/ (pc = "idle" /\ CallSignInput)
    \/ (pc = "idle" /\ CallWriteOutputs)
    \/ CallFromJSON
    \/ SignerSignInput
    \/ SignerWriteOutputs
    \/ TransactionFromJSON
    \/ Return

RoundTripSpec == RoundTripInit /\ [][RoundTripNext]_vars

(***************************************************************************)
(* transaction/TransactionBuilder.ts.  The UTXOSet a builder reads is the  *)
(* list of the entries of its map, in the map's iteration order.           *)
(***************************************************************************)
MaxUTXOs == 3           \* entries of the UTXO set a builder reads
MaxRecipients == 2      \* recipients added to a builder

NoWallet == <<>>

UTXOEntry(txId, outputIndex, output) ==
    [txId |-> txId, outputIndex |-> outputIndex, output |-> output]

\* UTXOSet.getUTXOsByAddress
GetUTXOsByAddress(entries, address) ==
    SelectSeq(entries, LAMBDA e : e.output.address = address)

\* new TransactionBuilder(utxoSet)
NewTransactionBuilder(entries) ==
    [utxoSet |-> entries, fromWallet |-> NoWallet, recipients |-> <<>>,
     feePerByte |-> 0, changeAddress |-> NoPublicKey]

\* builder.from(wallet)
From(builder, wallet) ==
    [builder EXCEPT !.fromWallet = wallet, !.changeAddress = wallet.address]

\* '', the address no TxOutput may have.
EmptyAddress == NoPublicKey

\* builder.to(address, amount), for amount > 0
To(builder, address, amount) ==
    [builder EXCEPT !.recipients =
        Append(@, [address |-> address, amount |-> amount])]

\* builder.to(address, amount), for any amount: the builder as the call
\* leaves it, and whether the call threw.
ToOrThrow(builder, address, amount) ==
    IF amount <= 0 THEN [status |-> "throw", builder |-> builder]
    ELSE [status |-> "builder", builder |-> To(builder, address, amount)]

\* builder.withFee(feePerByte)
WithFee(builder, feePerByte) == [builder EXCEPT !.feePerByte = feePerByte]

\* builder.withChangeAddress(address)
WithChangeAddress(builder, address) ==
    [builder EXCEPT !.changeAddress = address]

\* The sum of the amounts of a list of recipients, or of outputs.
RECURSIVE SumAmounts(_)
SumAmounts(list) ==
    IF list = <<>> THEN 0 ELSE Head(list).amount + SumAmounts(Tail(list))

\* The sum of the amounts of a list of UTXO entries.
RECURSIVE SumEntries(_)
SumEntries(entries) ==
    IF entries = <<>> THEN 0
    ELSE Head(entries).output.amount + SumEntries(Tail(entries))

\* A sort that leaves the list as it is.
SortDescending_Unsorted(utxos) == utxos

\* [...utxos].sort((a, b) => b.output.amount - a.output.amount): the sort
\* is stable, an entry comes after the entries before it of the same or of
\* a larger amount.
RECURSIVE SortDescending(_)
SortDescending(utxos) ==
    IF utxos = <<>> THEN <<>>
    ELSE LET last == utxos[Len(utxos)]
             sorted == SortDescending(SubSeq(utxos, 1, Len(utxos) - 1))
             ahead == SelectSeq(sorted, LAMBDA e :
                                  e.output.amount >= last.output.amount)
             behind == SelectSeq(sorted, LAMBDA e :
                                   e.output.amount < last.output.amount)
         IN  ahead \o <<last>> \o behind

\* The loop of selectUTXOs: entries are taken from `sorted` until the total
\* reaches the target.
RECURSIVE SelectFrom(_, _, _, _)
SelectFrom(sorted, targetAmount, selected, total) ==
    IF sorted = <<>> THEN [selected |-> selected, total |-> total]
    ELSE LET utxo == Head(sorted)
         IN  IF total + utxo.output.amount >= targetAmount
             THEN [selected |-> Append(selected, utxo),
                   total |-> total + utxo.output.amount]
             ELSE SelectFrom(Tail(sorted), targetAmount,
                             Append(selected, utxo),
                             total + utxo.output.amount)

\* selectUTXOs that takes every entry when the entries suffice.
SelectUTXOs_All(utxos, targetAmount) ==
    IF SumEntries(utxos) < targetAmount THEN <<>> ELSE SortDescending(utxos)

\* TransactionBuilder.selectUTXOs
SelectUTXOs(utxos, targetAmount) ==
    LET r == SelectFrom(SortDescending(utxos), targetAmount, <<>>, 0)
    IN  IF r.total < targetAmount THEN <<>> ELSE r.selected

RECURSIVE InputsOfEntries(_)
InputsOfEntries(entries) ==
    IF entries = <<>> THEN <<>>
    ELSE <<UnsignedTxInput(Head(entries).txId, Head(entries).outputIndex)>>
             \o InputsOfEntries(Tail(entries))

RECURSIVE OutputsOfRecipients(_)
OutputsOfRecipients(recipients) ==
    IF recipients = <<>> THEN <<>>
    ELSE <<TxOutput(Head(recipients).amount, Head(recipients).address)>>
             \o OutputsOfRecipients(Tail(recipients))

Thrown == [status |-> "throw"]

\* A build() that takes the fee out of the change.
BuildOutputs_ChargesFee(builder, change) ==
    IF change - builder.feePerByte > 0
    THEN Append(OutputsOfRecipients(builder.recipients),
                TxOutput(change - builder.feePerByte, builder.changeAddress))
    ELSE OutputsOfRecipients(builder.recipients)

\* The outputs of build(): one per recipient, then the change.
BuildOutputs(builder, change) ==
    IF change > 0
    THEN Append(OutputsOfRecipients(builder.recipients),
                TxOutput(change,
                         IF builder.changeAddress # NoPublicKey
                         THEN builder.changeAddress
                         ELSE builder.fromWallet.address))
    ELSE OutputsOfRecipients(builder.recipients)

\* TransactionBuilder.build(), at clock reading `now`
Build(builder, now) ==
    IF builder.fromWallet = NoWallet THEN Thrown
    ELSE IF Len(builder.recipients) = 0 THEN Thrown
    ELSE LET totalOutput == SumAmounts(builder.recipients)
             senderUTXOs == GetUTXOsByAddress(builder.utxoSet,
                                              builder.fromWallet.address)
         IN  IF Len(senderUTXOs) = 0 THEN Thrown
             ELSE LET selectedUTXOs == SelectUTXOs(senderUTXOs, totalOutput)
                      change == SumEntries(selectedUTXOs) - totalOutput
                  IN  IF Len(selectedUTXOs) = 0 THEN Thrown
                      \* new TxOutput(amount, '') throws
                      ELSE IF \E i \in 1..Len(builder.recipients) :
                                 builder.recipients[i].address = EmptyAddress
                           THEN Thrown
                      ELSE IF change < 0 THEN Thrown
                      ELSE [status |-> "transaction",
                            transaction |->
                                Transaction(InputsOfEntries(selectedUTXOs),
                                            BuildOutputs(builder, change),
                                            now)]

(***************************************************************************)
(* A builder is set up over a UTXO set and build() is called on it.        *)
(***************************************************************************)
CarolAddress == AttackerAddress

\* The UTXO sets: up to MaxUTXOs outputs of 1, 2 or 3 units, of Alice or of
\* Bob, entry n being output 0 of transaction n.
RECURSIVE UTXOEntriesOfLen(_)
UTXOEntriesOfLen(n) ==
    IF n = 0 THEN {<<>>}
    ELSE {Append(entries, UTXOEntry(n, 0, TxOutput(amount, address))) :
            entries \in UTXOEntriesOfLen(n - 1),
            amount \in 1..3,
            address \in {AliceWallet.address, BobWallet.address}}

RECURSIVE RecipientsOfLen(_)
RecipientsOfLen(n) ==
    IF n = 0 THEN {<<>>}
    ELSE {Append(recipients, [address |-> address, amount |-> amount]) :
            recipients \in RecipientsOfLen(n - 1),
            address \in {BobWallet.address, CarolAddress, EmptyAddress},
            amount \in {1, 3}}

RECURSIVE AddRecipients(_, _)
AddRecipients(builder, recipients) ==
    IF recipients = <<>> THEN builder
    ELSE AddRecipients(To(builder, Head(recipients).address,
                          Head(recipients).amount),
                       Tail(recipients))

\* The builder a caller has set up: new TransactionBuilder(utxoSet), then
\* from(alice) or not, the recipients, withFee or not, withChangeAddress or
\* not.
SetUp(entries, hasSender, recipients, hasFee, hasChangeAddress) ==
    LET new == NewTransactionBuilder(entries)
        sent == IF hasSender THEN From(new, AliceWallet) ELSE new
        paid == AddRecipients(sent, recipients)
        charged == IF hasFee THEN WithFee(paid, 1) ELSE paid
    IN  IF hasChangeAddress THEN WithChangeAddress(charged, CarolAddress)
        ELSE charged

\* Date.now() when build() constructs the transaction.
BuildClock == {1, 2}

CallBuild ==
    /\ pc = "idle"
    /\ \E n \in 0..MaxUTXOs, m \in 0..MaxRecipients :
        \E entries \in UTXOEntriesOfLen(n), recipients \in RecipientsOfLen(m),
           hasSender \in BOOLEAN, hasFee \in BOOLEAN,
           hasChangeAddress \in BOOLEAN :
            Invoke("build", <<SetUp(entries, hasSender, recipients, hasFee,
                                    hasChangeAddress)>>)

\* builder.build()
TransactionBuilderBuild ==
    /\ pc = "called" /\ call.op = "build"
    /\ \E now \in BuildClock : Returns(Build(call.arg[1], now))
    /\ UNCHANGED <<chain, utxoSet, history>>

\* A caller adds a recipient to a builder that has a sender and a
\* recipient or none.
CallTo ==
    /\ pc = "idle"
    /\ \E m \in 0..1 : \E recipients \in RecipientsOfLen(m),
          address \in {BobWallet.address, EmptyAddress}, amount \in -1..2 :
            Invoke("to", <<SetUp(<<>>, TRUE, recipients, FALSE, FALSE),
                           address, amount>>)

\* builder.to(address, amount)
TransactionBuilderTo ==
    /\ pc = "called" /\ call.op = "to"
    /\ Returns(ToOrThrow(call.arg[1], call.arg[2], call.arg[3]))
    /\ UNCHANGED <<chain, utxoSet, history>>

BuilderNext ==
    \/ CallBuild
    \/ CallTo
    \/ TransactionBuilderBuild
    \/ TransactionBuilderTo
    \/ Return

BuilderSpec == Init /\ [][BuilderNext]_vars

(***************************************************************************)
(* UTXOSet objects.  A UTXOSet holds a reference to a Map; `heap.maps` are *)
(* the Map objects, `heap.sets[s]` is the Map that the field `utxos` of    *)
(* the UTXOSet s refers to, and `heap.views[v]` is a Map that getAll()     *)
(* returned to a caller.                                                   *)
(***************************************************************************)
MaxMaps == 3

\* The Map of the UTXOSet s.
Contents(h, s) == h.maps[h.sets[s]]

\* A clone() whose new set refers to the Map of the set it was made from.
UTXOSetClone_Aliased(h, s) == [h EXCEPT !.sets = Append(@, h.sets[s])]

\* UTXOSet.clone: a new UTXOSet whose utxos is new Map(this.utxos).
UTXOSetClone(h, s) ==
    [h EXCEPT !.maps = Append(@, Contents(h, s)),
              !.sets = Append(@, Len(h.maps) + 1)]

\* UTXOSet.getAll: new Map(this.utxos)
UTXOSetGetAll(h, s) ==
    [h EXCEPT !.maps = Append(@, Contents(h, s)),
              !.views = Append(@, Len(h.maps) + 1)]

\* UTXOSet.add, remove and clear, on the Map the set refers to.
UTXOSetAdd(h, s, txId, outputIndex, output) ==
    [h EXCEPT !.maps[h.sets[s]] = UTXOAdd(@, txId, outputIndex, output)]
UTXOSetRemove(h, s, txId, outputIndex) ==
    [h EXCEPT !.maps[h.sets[s]] = UTXORemove(@, txId, outputIndex)]
UTXOSetClear(h, s) == [h EXCEPT !.maps[h.sets[s]] = EmptyUTXOSet]

\* Map.set, Map.delete and Map.clear, on a Map that getAll() returned.
MapSet(h, v, key, output) ==
    [h EXCEPT !.maps[h.views[v]] = UTXOAdd(@, key[1], key[2], output)]
MapDelete(h, v, key) ==
    [h EXCEPT !.maps[h.views[v]] = UTXORemove(@, key[1], key[2])]
MapClear(h, v) == [h EXCEPT !.maps[h.views[v]] = EmptyUTXOSet]

\* The keys and the outputs the callers use.
HeapTxIds == {1, 2}
HeapOutputs == {TxOutput(50, Alice), TxOutput(30, Bob)}

\* new UTXOSet()
UTXOSetInit ==
    /\ chain = <<>>
    /\ utxoSet = EmptyUTXOSet
    /\ pc = "idle"
    /\ call = NoCall
    /\ result = "none"
    /\ old = NoOld
    /\ history = NoHistory
    /\ config = DefaultConfig
    /\ heldBlock = NoBlock
    /\ merkleTree = NoTree
    /\ transaction = NoTransaction
    /\ heap = [maps |-> <<EmptyUTXOSet>>, sets |-> <<1>>, views |-> <<>>]
    /\ pendingTransactions = <<>>

HeapReturns(r, h) ==
    /\ pc' = "returned"
    /\ result' = r
    /\ old' = [NoOld EXCEPT !.heap = heap]
    /\ heap' = h
    /\ UNCHANGED <<call, chain, utxoSet, history, config, heldBlock,
                   merkleTree, transaction, pendingTransactions>>

\* A caller calls add, remove or clear on one of the UTXOSet objects.
CallUTXOSetWrite ==
    /\ pc = "idle"
    /\ \E s \in 1..Len(heap.sets), txId \in HeapTxIds :
          \/ \E output \in HeapOutputs : Invoke("add", <<s, txId, 0, output>>)
          \/ Invoke("remove", <<s, txId, 0>>)
          \/ Invoke("clear", <<s>>)

\* A caller calls clone or getAll on one of the UTXOSet objects.
CallUTXOSetCopy ==
    /\ pc = "idle"
    /\ Len(heap.sets) + Len(heap.views) < MaxMaps
    /\ \E s \in 1..Len(heap.sets) :
          \/ Invoke("clone", <<s>>)
          \/ Invoke("getAll", <<s>>)

\* A caller writes to a Map that getAll() returned.
CallMapWrite ==
    /\ pc = "idle"
    /\ \E v \in 1..Len(heap.views), txId \in HeapTxIds :
          \/ \E output \in HeapOutputs :
                Invoke("Map.set", <<v, MakeKey(txId, 0), output>>)
          \/ Invoke("Map.delete", <<v, MakeKey(txId, 0)>>)
          \/ Invoke("Map.clear", <<v>>)

UTXOSetObjectAdd ==
    /\ pc = "called" /\ call.op = "add"
    /\ HeapReturns("void", UTXOSetAdd(heap, call.arg[1], call.arg[2],
                                      call.arg[3], call.arg[4]))

UTXOSetObjectRemove ==
    /\ pc = "called" /\ call.op = "remove"
    /\ HeapReturns(IF UTXOHas(Contents(heap, call.arg[1]), call.arg[2], call.arg[3])
                   THEN "true" ELSE "false",
                   UTXOSetRemove(heap, call.arg[1], call.arg[2], call.arg[3]))

UTXOSetObjectClear ==
    /\ pc = "called" /\ call.op = "clear"
    /\ HeapReturns("void", UTXOSetClear(heap, call.arg[1]))

\* The result is the new set.
UTXOSetObjectClone ==
    /\ pc = "called" /\ call.op = "clone"
    /\ HeapReturns([status |-> "set", set |-> Len(heap.sets) + 1],
                   UTXOSetClone(heap, call.arg[1]))

\* The result is the Map returned.
UTXOSetObjectGetAll ==
    /\ pc = "called" /\ call.op = "getAll"
    /\ HeapReturns([status |-> "map", view |-> Len(heap.views) + 1],
                   UTXOSetGetAll(heap, call.arg[1]))

MapWrite ==
    /\ pc = "called"
    /\ \/ /\ call.op = "Map.set"
          /\ HeapReturns("void", MapSet(heap, call.arg[1], call.arg[2], call.arg[3]))
       \/ /\ call.op = "Map.delete"
          /\ HeapReturns("void", MapDelete(heap, call.arg[1], call.arg[2]))
       \/ /\ call.op = "Map.clear"
          /\ HeapReturns("void", MapClear(heap, call.arg[1]))

UTXOSetNext ==
    \/ CallUTXOSetWrite
    \/ CallUTXOSetCopy
    \/ CallMapWrite
    \/ UTXOSetObjectAdd
    \/ UTXOSetObjectRemove
    \/ UTXOSetObjectClear
    \/ UTXOSetObjectClone
    \/ UTXOSetObjectGetAll
    \/ MapWrite
    \/ Return

UTXOSetSpec == UTXOSetInit /\ [][UTXOSetNext]_vars

(***************************************************************************)
(* The server: ServerState and the routes POST /transactions and           *)
(* POST /mine.  `chain` and `utxoSet` are those of state.blockchain.       *)
(***************************************************************************)
MaxPending == 2

\* The entries of the UTXO map in the order the Map iterates them: set()
\* of a new key appends it, set() of a key it has keeps its place.
EntriesRemove(entries, txId, outputIndex) ==
    SelectSeq(entries,
              LAMBDA e : ~(e.txId = txId /\ e.outputIndex = outputIndex))

EntriesAdd(entries, txId, outputIndex, output) ==
    IF \E i \in 1..Len(entries) :
           entries[i].txId = txId /\ entries[i].outputIndex = outputIndex
    THEN [i \in 1..Len(entries) |->
             IF entries[i].txId = txId /\ entries[i].outputIndex = outputIndex
             THEN UTXOEntry(txId, outputIndex, output) ELSE entries[i]]
    ELSE Append(entries, UTXOEntry(txId, outputIndex, output))

RECURSIVE EntriesRemoveInputs(_, _)
EntriesRemoveInputs(entries, inputs) ==
    IF inputs = <<>> THEN entries
    ELSE EntriesRemoveInputs(EntriesRemove(entries, Head(inputs).txId,
                                           Head(inputs).outputIndex),
                             Tail(inputs))

RECURSIVE EntriesAddOutputs(_, _, _, _)
EntriesAddOutputs(entries, txId, outputs, index) ==
    IF outputs = <<>> THEN entries
    ELSE EntriesAddOutputs(EntriesAdd(entries, txId, index, Head(outputs)),
                           txId, Tail(outputs), index + 1)

\* updateUTXOSet over the transactions of the chain, on the entries.
RECURSIVE EntriesOfTxs(_, _)
EntriesOfTxs(entries, txs) ==
    IF txs = <<>> THEN entries
    ELSE LET tx == Head(txs)
         IN  EntriesOfTxs(
                 EntriesAddOutputs(
                     IF IsCoinbase(tx) THEN entries
                     ELSE EntriesRemoveInputs(entries, tx.inputs),
                     tx.id, tx.outputs, 0),
                 Tail(txs))

\* The entries after updateUTXOSet of each block in turn.
RECURSIVE EntriesOfBlocks(_, _)
EntriesOfBlocks(entries, blocks) ==
    IF blocks = <<>> THEN entries
    ELSE EntriesOfBlocks(EntriesOfTxs(entries, Head(blocks).transactions),
                         Tail(blocks))

\* Blockchain.addBlock as a function: what it returns and the chain and
\* UTXO set it leaves.
AddBlockTo(blocks, utxos, newBlock) ==
    IF IsValidNewBlock(utxos, newBlock, blocks[Len(blocks)])
    THEN [returned |-> "true", chain |-> Append(blocks, newBlock),
          utxoSet |-> UpdateUTXOSet(utxos, newBlock)]
    ELSE [returned |-> "false", chain |-> blocks, utxoSet |-> utxos]

\* TransactionBuilder.createSimpleTransfer, at clock reading `now`
CreateSimpleTransfer(fromWallet, toAddress, amount, entries, now) ==
    LET to == ToOrThrow(From(NewTransactionBuilder(entries), fromWallet),
                        toAddress, amount)
        built == IF to.status = "throw" THEN Thrown ELSE Build(to.builder, now)
    IN  IF built.status = "throw" THEN Thrown
        ELSE [status |-> "transaction",
              transaction |->
                  SignTransaction(built.transaction, fromWallet).transaction]

\* The wallets of the server (two of its four), the first being the one
\* the genesis coinbase pays.
ServerWallets == {AliceWallet, BobWallet}
ServerAddresses == {w.address : w \in ServerWallets}
ServerAmounts == {20, 50}
ServerMiners == {BobWallet.address}

\* The clock reading when a transfer is posted: after the tip was created.
TransferClock(blocks) == {blocks[Len(blocks)].timestamp + 1}

\* ServerState.initialize: the genesis block, mined.
ServerGenesisBlock ==
    MineObject(BlockObject(
        NewBlock(0, GenesisPreviousHash, GenesisTime,
                 <<CreateCoinbase(AliceWallet.address, BlockReward, 0, GenesisTime)>>,
                 InitialDifficulty, 0))).object.fields

ServerInit ==
    /\ chain = <<ServerGenesisBlock>>
    /\ utxoSet = UpdateUTXOSet(EmptyUTXOSet, ServerGenesisBlock)
    /\ pendingTransactions = <<>>
    /\ pc = "idle"
    /\ call = NoCall
    /\ result = "none"
    /\ old = NoOld
    /\ history = [NoHistory EXCEPT !.base = "initialize"]
    /\ config = DefaultConfig
    /\ heldBlock = NoBlock
    /\ merkleTree = NoTree
    /\ transaction = NoTransaction
    /\ heap = NoHeap

\* A route has answered r and left the blockchain and the pool as given.
ServerReturns(r, blocks, utxos, pending) ==
    /\ pc' = "returned"
    /\ result' = r
    /\ old' = [NoOld EXCEPT !.chain = chain, !.utxoSet = utxoSet,
                            !.pendingTransactions = pendingTransactions]
    /\ chain' = blocks
    /\ utxoSet' = utxos
    /\ pendingTransactions' = pending
    /\ UNCHANGED <<call, history, config, heldBlock, merkleTree, transaction,
                   heap>>

\* A client posts a transfer; the request is served at clock reading now.
CallPostTransactions ==
    /\ pc = "idle"
    /\ Len(pendingTransactions) < MaxPending
    /\ \E fromWallet \in ServerWallets, toAddress \in ServerAddresses,
          amount \in ServerAmounts, now \in TransferClock(chain) :
          Invoke("POST /transactions", <<fromWallet, toAddress, amount, now>>)

\* POST /api/transactions
PostTransactions ==
    /\ pc = "called" /\ call.op = "POST /transactions"
    /\ LET fromWallet == call.arg[1]
           toAddress == call.arg[2]
           amount == call.arg[3]
           tx == CreateSimpleTransfer(fromWallet, toAddress, amount,
                                      EntriesOfBlocks(<<>>, chain),
                                      call.arg[4])
           answer(status) == ServerReturns([status |-> status], chain, utxoSet,
                                           pendingTransactions)
       IN  IF amount = 0 \/ amount <= 0 THEN answer("400")
           ELSE IF GetBalance(utxoSet, fromWallet.address) < amount
                THEN answer("400")
           ELSE IF tx.status = "throw" THEN answer("500")
           ELSE IF ~VerifyTransaction(tx.transaction, utxoSet) THEN answer("400")
           ELSE ServerReturns([status |-> "200"], chain, utxoSet,
                              Append(pendingTransactions, tx.transaction))

\* transactionIds.map(find).filter(defined)
RECURSIVE FindPending(_, _)
FindPending(pending, transactionIds) ==
    IF transactionIds = <<>> THEN <<>>
    ELSE LET found == SelectSeq(pending, LAMBDA tx : tx.id = Head(transactionIds))
         IN  (IF found = <<>> THEN <<>> ELSE <<Head(found)>>)
                 \o FindPending(pending, Tail(transactionIds))

\* pendingTransactions.filter(tx => !transactionIds.includes(tx.id))
WithoutIds(pending, transactionIds) ==
    SelectSeq(pending,
              LAMBDA tx : \A i \in 1..Len(transactionIds) :
                             transactionIds[i] # tx.id)

\* The transactions POST /mine has mined: those of the ids given, or the
\* whole pool.
TransactionsToMine(pending, transactionIds) ==
    IF Len(transactionIds) > 0 THEN FindPending(pending, transactionIds)
    ELSE pending

\* A client posts a mining request, with no ids, the id of a pending
\* transaction or an id that no pending transaction has; the cases are
\* those in which ProofOfWork.mine ends within MaxNonce tries.
CallPostMine ==
    /\ pc = "idle"
    /\ Len(chain) < MaxChain
    /\ \E minerAddress \in ServerMiners, now \in MinerClock(chain),
          transactionIds \in {<<>>, <<WrongHash>>}
              \cup {<<pendingTransactions[i].id>> :
                        i \in 1..Len(pendingTransactions)} :
          LET mined == MineBlock(chain, utxoSet, config, minerAddress,
                                 TransactionsToMine(pendingTransactions,
                                                    transactionIds), now)
          IN  /\ mined.object = NoBlock \/ mined.returned.status = "returned"
              /\ Invoke("POST /mine", <<minerAddress, transactionIds, now>>)

\* POST /api/mine: the answer carries what addBlock returned, "none" when
\* the route did not come to call it.
PostMine ==
    /\ pc = "called" /\ call.op = "POST /mine"
    /\ LET transactionIds == call.arg[2]
           transactions == TransactionsToMine(pendingTransactions, transactionIds)
           mined == MineBlock(chain, utxoSet, config, call.arg[1], transactions,
                              call.arg[3])
           pending == IF Len(transactionIds) > 0
                      THEN WithoutIds(pendingTransactions, transactionIds)
                      ELSE <<>>
           added == AddBlockTo(chain, utxoSet, mined.object.fields)
       IN  IF Len(transactionIds) > 0 /\ Len(transactions) = 0
           THEN ServerReturns([status |-> "400", addBlock |-> "none"],
                              chain, utxoSet, pendingTransactions)
           ELSE IF mined.returned.status = "throw"
           THEN ServerReturns([status |-> "500", addBlock |-> "none"],
                              chain, utxoSet, pendingTransactions)
           ELSE ServerReturns([status |-> IF added.returned = "true"
                                          THEN "200" ELSE "500",
                               addBlock |-> added.returned],
                              added.chain, added.utxoSet, pending)

ServerNext ==
    \/ CallPostTransactions
    \/ CallPostMine
    \/ PostTransactions
    \/ PostMine
    \/ Return

ServerSpec == ServerInit /\ [][ServerNext]_vars

(***************************************************************************)
(* The properties.  The ledger rules are stated here on their own terms:   *)
(* which outpoints a transaction consumes and creates, and the fold of a   *)
(* chain from the empty set.                                               *)
(***************************************************************************)
ConsumedBy(tx) ==
    IF IsCoinbase(tx) THEN {}
    ELSE {<<tx.inputs[i].txId, tx.inputs[i].outputIndex>> : i \in 1..Len(tx.inputs)}

CreatedBy(tx) == {<<tx.id, i - 1>> : i \in 1..Len(tx.outputs)}

FoldTx(utxos, tx) ==
    [k \in ((DOMAIN utxos) \ ConsumedBy(tx)) \cup CreatedBy(tx) |->
        IF k \in CreatedBy(tx) THEN tx.outputs[k[2] + 1] ELSE utxos[k]]

RECURSIVE ChainTxs(_)
ChainTxs(blocks) ==
    IF blocks = <<>> THEN <<>>
    ELSE Head(blocks).transactions \o ChainTxs(Tail(blocks))

RECURSIVE FoldTxs(_, _, _)
FoldTxs(utxos, txs, i) ==
    IF i > Len(txs) THEN utxos ELSE FoldTxs(FoldTx(utxos, txs[i]), txs, i + 1)

FoldBlock(utxos, block) == FoldTxs(utxos, block.transactions, 1)
FoldChain(blocks) == FoldTxs(EmptyUTXOSet, ChainTxs(blocks), 1)

Returned(op) == pc = "returned" /\ call.op = op

\* C1: in every reachable state the UTXO set equals the fold of the current
\* chain from the empty set (per transaction in order: remove the outpoints
\* of its inputs unless it is coinbase, then add its outputs under
\* (tx.id, output index)), whether it was built block by block or rebuilt.
C1_UTXOSetIsFoldOfChain == utxoSet = FoldChain(chain)

\* C1 witness: addBlock has just applied a block that spent an outpoint on
\* top of a chain that replaceChain had installed.
C1_Witness ==
    /\ Returned("addBlock") /\ result = "true"
    /\ history.base = "replaceChain"
    /\ (DOMAIN old.utxoSet) \ (DOMAIN utxoSet) # {}

\* C2: addBlock is all-or-nothing.  When it returned false, chain and UTXO
\* set are what they were before the call; when it returned true, the chain
\* is the old chain with exactly the candidate appended and the UTXO set is
\* the old set with the candidate folded in (consumed outpoints removed,
\* created outputs added, transaction by transaction).
C2_AddBlockAllOrNothing ==
    Returned("addBlock") =>
        /\ result = "false" => chain = old.chain /\ utxoSet = old.utxoSet
        /\ result = "true" =>
              /\ chain = Append(old.chain, call.arg[1])
              /\ utxoSet = FoldBlock(old.utxoSet, call.arg[1])

\* C2 witness: addBlock has rejected a block that spends an outpoint of the
\* current UTXO set (its header is at fault), so a partial application would
\* have shown.
C2_Witness ==
    /\ Returned("addBlock") /\ result = "false"
    /\ \E i \in 1..Len(call.arg[1].transactions) :
          ConsumedBy(call.arg[1].transactions[i]) \cap DOMAIN old.utxoSet # {}

\* The five checks of addBlock, on the candidate, the tip and the UTXO set
\* as they were when the call was made.
IndexOk(block, tip) == block.index = tip.index + 1
PreviousHashOk(block, tip) == block.previousHash = BlockHash(tip)
ProofOfWorkOk(block) == Verify(block)
TimestampOk(block, tip) == block.timestamp > tip.timestamp
InputsOk(block, utxos) ==
    \A i \in 1..Len(block.transactions) :
        ConsumedBy(block.transactions[i]) \subseteq DOMAIN utxos

FailedChecks(block, tip, utxos) ==
    {c \in {"index", "previousHash", "proofOfWork", "timestamp", "inputs"} :
        \/ c = "index" /\ ~IndexOk(block, tip)
        \/ c = "previousHash" /\ ~PreviousHashOk(block, tip)
        \/ c = "proofOfWork" /\ ~ProofOfWorkOk(block)
        \/ c = "timestamp" /\ ~TimestampOk(block, tip)
        \/ c = "inputs" /\ ~InputsOk(block, utxos)}

OldTip == old.chain[Len(old.chain)]

\* C3: addBlock returns false for a candidate that violates a single one of
\* the five checks (index, previousHash, proof of work, timestamp, inputs in
\* the UTXO set) while it satisfies all the others.
C3_AddBlockRejectsSingleFault ==
    (Returned("addBlock") /\ old.chain # <<>>
        /\ Cardinality(FailedChecks(call.arg[1], OldTip, old.utxoSet)) = 1)
      => result = "false"

\* C3 witness: addBlock has returned from a candidate whose only fault is an
\* input that is not in the UTXO set.
C3_Witness ==
    /\ Returned("addBlock") /\ old.chain # <<>>
    /\ FailedChecks(call.arg[1], OldTip, old.utxoSet) = {"inputs"}

\* The same for each of the other four checks (reachability of the cases).
C3_WitnessIndex ==
    /\ Returned("addBlock") /\ old.chain # <<>>
    /\ FailedChecks(call.arg[1], OldTip, old.utxoSet) = {"index"}
C3_WitnessPreviousHash ==
    /\ Returned("addBlock") /\ old.chain # <<>>
    /\ FailedChecks(call.arg[1], OldTip, old.utxoSet) = {"previousHash"}
C3_WitnessProofOfWork ==
    /\ Returned("addBlock") /\ old.chain # <<>>
    /\ FailedChecks(call.arg[1], OldTip, old.utxoSet) = {"proofOfWork"}
C3_WitnessTimestamp ==
    /\ Returned("addBlock") /\ old.chain # <<>>
    /\ FailedChecks(call.arg[1], OldTip, old.utxoSet) = {"timestamp"}

\* The outpoints consumed by the transactions of the last n blocks.
SpentByLast(blocks, n) ==
    UNION {UNION {ConsumedBy(blocks[j].transactions[i]) :
                    i \in 1..Len(blocks[j].transactions)} :
             j \in (Len(blocks) - n + 1)..Len(blocks)}

\* C4: once addBlock has accepted a block with a transaction that consumes
\* outpoint X, and for as long as the chain is not replaced, addBlock
\* returns false for every candidate with a non-coinbase transaction that
\* has an input referencing X.
C4_DoubleSpendAcrossBlocksRejected ==
    Returned("addBlock") =>
        \A i \in 1..Len(call.arg[1].transactions) :
            (ConsumedBy(call.arg[1].transactions[i])
                \cap SpentByLast(old.chain, old.history.added) # {})
              => result = "false"

\* The transactions of the chain, in order, and the positions of those that
\* create, or consume, the outpoint k.
Creators(txs, k) == {i \in 1..Len(txs) : k \in CreatedBy(txs[i])}
Consumers(txs, k) == {i \in 1..Len(txs) : k \in ConsumedBy(txs[i])}

\* C5: an outpoint is a key of the UTXO set iff a transaction of the chain
\* created its output and no transaction of the chain consumed it; every
\* unspent outpoint was created by exactly one transaction.
C5_UnspentIffCreatedAndNotConsumed ==
    LET txs == ChainTxs(chain)
        keys == (DOMAIN utxoSet) \cup UNION {CreatedBy(txs[i]) : i \in 1..Len(txs)}
    IN  \A k \in keys :
          /\ k \in DOMAIN utxoSet
                <=> (Creators(txs, k) # {} /\ Consumers(txs, k) = {})
          /\ k \in DOMAIN utxoSet => Cardinality(Creators(txs, k)) = 1

\* C6: the chain is linked: every block after the first carries the hash of
\* the block before it and the next index, and the first block has index 0.
C6_ChainIsLinked ==
    /\ chain # <<>> => chain[1].index = 0
    /\ \A i \in 2..Len(chain) :
          /\ chain[i].previousHash = BlockHash(chain[i - 1])
          /\ chain[i].index = chain[i - 1].index + 1

\* C6 witness: a chain of three blocks, the last one appended by addBlock to
\* a chain that replaceChain had installed.
C6_Witness ==
    /\ Len(chain) >= 3
    /\ history = [base |-> "replaceChain", added |-> 1]

\* C7: addBlock never throws: on every candidate and every state of the
\* instance, also before initializeWithGenesisBlock, it returns true or false.
C7_AddBlockNeverThrows ==
    Returned("addBlock") => result \in {"true", "false"}

\* A chain that is valid on its own: a genesis block (index 0, previousHash
\* '0') and then blocks that each pass the five checks against the block
\* before them and the fold of the blocks before them.
ValidIndependentChain(blocks) ==
    /\ blocks # <<>>
    /\ blocks[1].index = 0
    /\ blocks[1].previousHash = GenesisPreviousHash
    /\ \A i \in 2..Len(blocks) :
          FailedChecks(blocks[i], blocks[i - 1],
                       FoldChain(SubSeq(blocks, 1, i - 1))) = {}

\* C8: replaceChain returns false and leaves chain and UTXO set unchanged
\* when the candidate is not strictly longer than the chain or is not valid;
\* only when it returns true is the chain the candidate, and the UTXO set
\* the fold of the candidate from the empty set.
C8_ReplaceChainRejectsOrSwaps ==
    Returned("replaceChain") =>
        /\ result \in {"true", "false"}
        /\ (Len(call.arg) <= Len(old.chain) \/ ~ValidIndependentChain(call.arg))
              => result = "false"
        /\ result = "false" => chain = old.chain /\ utxoSet = old.utxoSet
        /\ result = "true" => chain = call.arg /\ utxoSet = FoldChain(call.arg)

\* C8 witness: replaceChain has replaced a chain by one that diverges from
\* it, and the UTXO set changed with it.
C8_Witness ==
    /\ Returned("replaceChain") /\ result = "true"
    /\ old.chain # <<>>
    /\ SubSeq(chain, 1, Len(old.chain)) # old.chain
    /\ DOMAIN utxoSet # DOMAIN old.utxoSet

\* The chains a second Blockchain instance holds after
\* initializeWithGenesisBlock (genesis with index 0 and previousHash '0') and
\* successful addBlock calls.
ReachedByPeer(blocks) ==
    /\ blocks # <<>>
    /\ blocks[1].index = 0
    /\ blocks[1].previousHash = GenesisPreviousHash
    /\ \A i \in 2..Len(blocks) :
          IsValidNewBlock(RebuildUTXOSet(EmptyUTXOSet, SubSeq(blocks, 1, i - 1)),
                          blocks[i], blocks[i - 1])

\* C9: replaceChain accepts every chain a second instance reached by
\* initializeWithGenesisBlock and successful addBlock calls when it is
\* longer than the current chain; afterwards the instance holds that chain
\* and the peer's UTXO set.
C9_ReplaceChainAcceptsLongerValidChain ==
    (Returned("replaceChain") /\ Len(call.arg) > Len(old.chain)
        /\ ReachedByPeer(call.arg))
      => /\ result = "true"
         /\ chain = call.arg
         /\ utxoSet = RebuildUTXOSet(EmptyUTXOSet, call.arg)

\* C10: after initializeWithGenesisBlock with a genesis block (index 0,
\* previousHash '0') and any sequence of addBlock calls, isValidChain()
\* returns true, whatever the transactions of the accepted blocks.
C10_BuiltChainPassesIsValidChain ==
    (history.base = "initialize" /\ chain[1].previousHash = GenesisPreviousHash)
      => IsValidChain(chain, utxoSet)

\* The outputs of the transactions of a block, by outpoint.
OutputsOf(block) ==
    UNION {CreatedBy(block.transactions[i]) : i \in 1..Len(block.transactions)}

\* C11: initializeWithGenesisBlock throws, leaving chain and UTXO set as they
\* were, if the chain is not empty or the block's index is not 0; otherwise
\* the block becomes the only element of the chain, the UTXO set holds
\* exactly the outputs of the genesis transactions, and the balance of the
\* recipient of the genesis coinbase is the coinbase amount.
C11_InitializeThrowsOrInstallsGenesis ==
    Returned("initializeWithGenesisBlock") =>
        LET block == call.arg[1]
            coinbase == block.transactions[1]
        IN  IF old.chain # <<>> \/ block.index # 0
            THEN /\ result = "throw"
                 /\ chain = old.chain
                 /\ utxoSet = old.utxoSet
            ELSE /\ result = "void"
                 /\ chain = <<block>>
                 /\ DOMAIN utxoSet = OutputsOf(block)
                 /\ \A i \in 1..Len(block.transactions) :
                       \A k \in CreatedBy(block.transactions[i]) :
                           utxoSet[k] = block.transactions[i].outputs[k[2] + 1]
                 /\ GetBalance(utxoSet, coinbase.outputs[1].address)
                       = coinbase.outputs[1].amount

\* C11 witness: initializeWithGenesisBlock has thrown on an empty chain (the
\* index of the block was not 0).
C11_Witness ==
    /\ Returned("initializeWithGenesisBlock")
    /\ old.chain = <<>>
    /\ result = "throw"

\* C11, the other cases reached: a second initialization has thrown, and an
\* initialization has succeeded.
C11_WitnessTwice ==
    /\ Returned("initializeWithGenesisBlock")
    /\ old.chain # <<>> /\ old.utxoSet # EmptyUTXOSet
    /\ call.arg[1].index = 0
    /\ result = "throw"
C11_WitnessSuccess ==
    /\ Returned("initializeWithGenesisBlock")
    /\ result = "void"
    /\ GetBalance(utxoSet, Alice) = BlockReward

\* C12: a block with index 0 whose hash does not meet its difficulty is
\* never chain[0]: neither initializeWithGenesisBlock nor replaceChain
\* installs an unmined genesis block.
C12_GenesisIsMined ==
    chain # <<>> => Verify(chain[1])

\* C12, for each of the two ways chain[0] is set.
C12_InitializeRequiresMinedGenesis ==
    (Returned("initializeWithGenesisBlock") /\ ~Verify(call.arg[1]))
        => result = "throw"
C12_ReplaceChainRequiresMinedGenesis ==
    (Returned("replaceChain") /\ call.arg # <<>> /\ ~Verify(call.arg[1]))
        => result = "false"

\* The elapsed time the retarget rule compares, in milliseconds: from the
\* block `interval - 1` indices before the tip to the tip.
ElapsedOverInterval(blocks, interval) ==
    LET tip == blocks[Len(blocks)]
        first == CHOOSE b \in {blocks[i] : i \in 1..Len(blocks)} :
                    b.index = tip.index - interval + 1
    IN  tip.timestamp - first.timestamp

\* The target time of an interval, in milliseconds.
TargetMs(cfg) == 1000 * cfg.targetBlockTime * cfg.difficultyAdjustmentInterval

C13_WitnessRaised ==
    /\ Returned("calculateNextDifficulty") /\ chain # <<>>
    /\ config.difficultyAdjustmentInterval > 1
    /\ result = chain[Len(chain)].difficulty + 1
C13_WitnessFloor ==
    /\ Returned("calculateNextDifficulty") /\ chain # <<>>
    /\ (chain[Len(chain)].index + 1) % config.difficultyAdjustmentInterval = 0
    /\ ElapsedOverInterval(chain, config.difficultyAdjustmentInterval)
          > 2 * TargetMs(config)
    /\ chain[Len(chain)].difficulty = 1 /\ result = 1
C13_WitnessOffBoundary ==
    /\ Returned("calculateNextDifficulty") /\ Len(chain) > 1
    /\ (chain[Len(chain)].index + 1) % config.difficultyAdjustmentInterval # 0

\* C14: when the tip's index is difficultyAdjustmentInterval - 1 and the
\* interval took half the target time (elapsed = targetBlockTime * interval
\* / 2), calculateNextDifficulty returns tip.difficulty + 1.
C14_HalfTargetRaisesDifficulty ==
    (Returned("calculateNextDifficulty") /\ chain # <<>>
        /\ chain[Len(chain)].index = config.difficultyAdjustmentInterval - 1
        /\ 2 * ElapsedOverInterval(chain, config.difficultyAdjustmentInterval)
              = TargetMs(config))
      => result = chain[Len(chain)].difficulty + 1

\* C15: after ProofOfWork.mine has returned, the block's nonce is the
\* returned nonce, the block's hash is the returned hash (as the getter
\* reports it and as the header hashes), that hash has `difficulty` leading
\* zero digits, and ProofOfWork.verify is true of the block.
C15_VerifyHoldsAfterMine ==
    (Returned("mine") /\ result.status = "returned") =>
        /\ heldBlock.fields.nonce = result.nonce
        /\ GetHash(heldBlock) = result.hash
        /\ BlockHash(heldBlock.fields) = result.hash
        /\ StartsWithZeros(result.hash, heldBlock.fields.difficulty)
        /\ ObjectVerify(heldBlock)

\* C15 witness: mine has returned a nonce above 0 on a block whose hash had
\* been read before, at another nonce.
C15_Witness ==
    /\ Returned("mine") /\ result.status = "returned"
    /\ result.nonce > 0
    /\ old.heldBlock.cachedHash # Undefined
    /\ old.heldBlock.fields.nonce # result.nonce

\* C16: mine returns the smallest nonce n >= 0 for which the block's hash
\* with nonce n meets the difficulty, and never a nonce whose hash fails
\* the test; when no nonce of the nonce space does, it throws.
C16_MineReturnsFirstValidNonce ==
    Returned("mine") =>
        LET fields == old.heldBlock.fields
            good == {n \in 0..MaxNonce : Verify(SetNonce(fields, n))}
        IN  IF good = {}
            THEN result.status = "throw"
            ELSE /\ result.status = "returned"
                 /\ result.nonce \in good
                 /\ \A n \in good : result.nonce <= n

\* C16 witness: mine has returned a nonce after trying smaller ones that
\* failed.
C16_Witness ==
    /\ Returned("mine") /\ result.status = "returned"
    /\ result.nonce >= 2
    /\ ~Verify(SetNonce(old.heldBlock.fields, 0))

\* C16, the other case reached: the nonce space is exhausted and mine has
\* thrown.
C16_WitnessExhausted ==
    /\ Returned("mine") /\ result.status = "throw"

\* C18: under any sequence of setNonce calls and reads of block.hash, a
\* read of block.hash returns the double hash of the header with the latest
\* nonce: a cached hash is never stale.
C18_HashReflectsLatestNonce ==
    /\ heldBlock.cachedHash # Undefined
          => heldBlock.cachedHash = DoubleSha256(GetHeaderString(heldBlock.fields))
    /\ Returned("hash")
          => result = DoubleSha256(GetHeaderString(heldBlock.fields))

\* C18 witness: the hash is read, with an empty cache, from a block whose
\* nonce setNonce has changed, and differs from the hash at nonce 0.
C18_Witness ==
    /\ Returned("hash")
    /\ old.heldBlock.cachedHash = Undefined
    /\ heldBlock.fields.nonce # 0
    /\ heldBlock.cachedHash # BlockHash(SetNonce(heldBlock.fields, 0))

\* C19: a change of a committed field other than the nonce (index,
\* previousHash, timestamp, difficulty, the transaction list) changes the
\* hash the block reports, also when the hash was read before the change.
C19_FieldChangeChangesHash ==
    Returned("write") => GetHash(heldBlock) # GetHash(old.heldBlock)

\* The digests of the headers before and after a write differ in the model:
\* where C19 fails, it is the object that reports an old hash.
C19_HeadersDiffer ==
    (Returned("write")
        /\ heldBlock.fields.transactions = old.heldBlock.fields.transactions)
      => BlockHash(heldBlock.fields) # BlockHash(old.heldBlock.fields)

\* C17: a block Miner.mineEmptyBlock() or Miner.mineBlock(txs) returned,
\* every transaction of txs spending only outpoints of the UTXO set, is
\* accepted by addBlock when it is passed before any other block is added:
\* addBlock returns true and the chain grows by one.
C17_MinedBlockIsAccepted ==
    (Returned("addBlock") /\ old.chain # <<>>
        /\ \E txs \in MinerTxLists(old.utxoSet), now \in MinerClock(old.chain) :
              call.arg[1]
                = MineBlock(old.chain, old.utxoSet, config, Alice, txs, now).object.fields)
      => /\ result = "true"
         /\ Len(chain) = Len(old.chain) + 1

\* The ids of the list a tree was built from.
IdsOf(tree) == {tree.data[i] : i \in 1..Len(tree.data)}

\* C20: for every non-empty id list (odd or even length, with or without
\* repeated ids) and every id in it, getProof returns a proof and
\* verify(id, tree.getProof(id), tree.getRoot()) is true.
C20_ProofOfMemberVerifies ==
    /\ (Returned("getProof") /\ call.arg[1] \in IdsOf(merkleTree))
          => /\ result.status = "returned"
             /\ VerifyFrom(Sha256(<<call.arg[1]>>), result.proof, 1)
                   = merkleTree.root.hash
    /\ (Returned("verify") /\ call.arg[1] \in IdsOf(merkleTree)
           /\ call.arg[2] = GetProof(merkleTree, call.arg[1]).proof
           /\ call.arg[3] = GetRoot(merkleTree))
          => result = "true"

\* C20 witness: verify has returned on the proof of the last id of a list
\* of odd length with a repeated id, a proof of more than one step.
C20_Witness ==
    /\ Returned("verify")
    /\ Len(merkleTree.data) % 2 = 1
    /\ Cardinality(IdsOf(merkleTree)) < Len(merkleTree.data)
    /\ call.arg[1] = merkleTree.data[Len(merkleTree.data)]
    /\ call.arg[2] = GetProof(merkleTree, call.arg[1]).proof
    /\ call.arg[3] = GetRoot(merkleTree)
    /\ Len(call.arg[2]) > 1
    /\ \E i \in 1..Len(call.arg[2]) : call.arg[2][i].position = "left"

\* The call in progress is verify on a triple that differs in one place
\* (the id, one proof step, or the root) from the valid triple of an id of
\* the tree.
AlteredTriple ==
    \E id \in IdsOf(merkleTree) :
        /\ call.arg \in VerifyArguments(merkleTree, id)
        /\ call.arg # <<id, GetProof(merkleTree, id).proof, GetRoot(merkleTree)>>

\* C21: starting from a valid triple (id, tree.getProof(id), tree.getRoot()),
\* verify returns false when the id is replaced by another id, when one
\* proof step is altered (its hash or its side), or when the root is
\* replaced by another value.
C21_AlteredTripleFailsVerify ==
    (Returned("verify") /\ AlteredTriple) => result = "false"

\* The hash verify has computed before proof step i.
HashBeforeStep(data, proof, i) ==
    VerifyFrom(Sha256(<<data>>), SubSeq(proof, 1, i - 1), 1)

\* Where an altered triple verifies, the alteration is the side of a step
\* whose sibling hash is the hash computed so far (a node paired with
\* itself or with an equal neighbour): no two different digests of the
\* model collide on the way.
C21_OnlyEqualSiblingFlipVerifies ==
    (Returned("verify") /\ AlteredTriple /\ result = "true") =>
        \E id \in IdsOf(merkleTree) :
            LET proof == GetProof(merkleTree, id).proof
            IN  /\ call.arg[1] = id
                /\ call.arg[3] = GetRoot(merkleTree)
                /\ \E i \in 1..Len(proof) :
                      /\ call.arg[2] = [proof EXCEPT ![i].position =
                                          IF @ = "left" THEN "right" ELSE "left"]
                      /\ proof[i].hash = HashBeforeStep(id, proof, i)

\* C22: two MerkleTrees built from two different id lists have different
\* roots.
C22_DifferentListsDifferentRoots ==
    Returned("getRoot") =>
        \A n \in 1..MaxLeaves : \A other \in IdListsOfLen(n) :
            other # merkleTree.data => GetRoot(MerkleTree(other)) # result

\* Where two different lists have the same root, they have built the same
\* tree of nodes (the shorter list's last node was paired with itself): no
\* two different digests of the model collide.
C22_EqualRootsAreEqualTrees ==
    Returned("getRoot") =>
        \A n \in 1..MaxLeaves : \A other \in IdListsOfLen(n) :
            GetRoot(MerkleTree(other)) = result
                => MerkleTree(other).root = merkleTree.root

\* C23: for two distinct ids a and b the root of the tree of [a, b] differs
\* from the root of the tree of [b, a]; the root of a tree is the root any
\* tree built from the same list has (the one a Block computes from its
\* transaction ids).
C23_RootDependsOnOrder ==
    Returned("getRoot") =>
        /\ result = MerkleRoot(merkleTree.data)
        /\ (Len(merkleTree.data) = 2 /\ merkleTree.data[1] # merkleTree.data[2])
              => result # GetRoot(MerkleTree(<<merkleTree.data[2],
                                               merkleTree.data[1]>>))

\* C23 witness: getRoot has returned on a tree built from two distinct ids.
C23_Witness ==
    /\ Returned("getRoot")
    /\ Len(merkleTree.data) = 2
    /\ merkleTree.data[1] # merkleTree.data[2]

\* The four signing methods of TransactionSigner.
SigningOps ==
    {"signInput", "signTransaction", "signTransactionWithWallets",
     "signTransactionWithWalletMap"}

\* The outputs are no longer those an input was signed over.
OutputsWrittenAfterSigning == \E outputs \in history : outputs # transaction.outputs

\* C24 as stated: once an input of a transaction has been signed, whatever
\* is then written over the outputs (another amount, another address, an
\* output more or fewer), verifyTransaction returns false, for one signer or
\* several.
C24_WrittenOutputsFailVerification ==
    (Returned("verifyTransaction") /\ OutputsWrittenAfterSigning)
        => result = "false"

\* C24: once an input of a transaction that is not a coinbase has been
\* signed, whatever is then written over the outputs, verifyTransaction
\* returns false, for one signer or several.
C24_WrittenOutputsFailUnlessCoinbase ==
    (Returned("verifyTransaction") /\ OutputsWrittenAfterSigning
        /\ ~IsCoinbase(transaction))
        => result = "false"

\* C24 witness: both inputs are signed, by two signers, the outputs were
\* written afterwards, and verifyTransaction has returned.
C24_Witness ==
    /\ Returned("verifyTransaction")
    /\ OutputsWrittenAfterSigning
    /\ Len(transaction.inputs) = 2
    /\ transaction.inputs[1].publicKey = AliceWallet.publicKey
    /\ transaction.inputs[2].publicKey = BobWallet.publicKey

\* C24 witness: a single signer, and an output was removed.
C24_WitnessOneSigner ==
    /\ Returned("verifyTransaction")
    /\ history = {BuiltOutputs}
    /\ transaction.outputs = <<>>
    /\ Len(transaction.inputs) = 1
    /\ ~IsCoinbase(transaction)

\* Input i of the transaction passes the four tests: it carries a signature
\* and a public key, the signature is the key pair's signature of the
\* digest of the current content, its outpoint is in the UTXO map, and the
\* address of the public key is the address of that output.
InputVerifies(i) ==
    LET input == transaction.inputs[i]
        utxoKey == <<input.txId, input.outputIndex>>
    IN  /\ input.signature # NoSignature
        /\ input.publicKey # NoPublicKey
        /\ input.signature = <<Sha256(ContentOf(transaction)), input.publicKey>>
        /\ utxoKey \in DOMAIN utxoSet
        /\ GenerateAddress(input.publicKey) = utxoSet[utxoKey].address

\* C25: verifyTransaction never throws, and returns true exactly when the
\* transaction is a coinbase or every input is signed, its signature is
\* valid for the current content under its public key, its outpoint is in
\* the UTXO map and its public key's address is the address of that output.
C25_VerifyTransactionIsTheFourTests ==
    Returned("verifyTransaction") =>
        /\ result \in {"true", "false"}
        /\ result = "true" <=>
              \/ IsCoinbase(transaction)
              \/ \A i \in 1..Len(transaction.inputs) : InputVerifies(i)

\* C25 witness: verifyTransaction has returned true on a transaction of two
\* inputs that is not a coinbase.
C25_Witness ==
    /\ Returned("verifyTransaction")
    /\ result = "true"
    /\ Len(transaction.inputs) = 2

\* C25 witness: every input carries a valid signature, and the signer of one
\* does not own the output it spends.
C25_WitnessWrongOwner ==
    /\ Returned("verifyTransaction")
    /\ result = "false"
    /\ ~IsCoinbase(transaction)
    /\ \A i \in 1..Len(transaction.inputs) :
          /\ transaction.inputs[i].signature
                = <<Sha256(ContentOf(transaction)), transaction.inputs[i].publicKey>>
          /\ <<transaction.inputs[i].txId, 0>> \in DOMAIN utxoSet

\* C26: an input that carries a signature and a public key when one of the
\* four signing methods is called carries the same ones when the method
\* returns or throws.
C26_SignedInputIsKept ==
    (pc = "returned" /\ call.op \in SigningOps) =>
        \A i \in 1..Len(transaction.inputs) :
            (/\ old.transaction.inputs[i].signature # NoSignature
             /\ old.transaction.inputs[i].publicKey # NoPublicKey)
                => transaction.inputs[i] = old.transaction.inputs[i]

\* C26 witness: signTransaction has returned, called with a wallet other
\* than the one that had signed an input.
C26_Witness ==
    /\ Returned("signTransaction")
    /\ \E i \in 1..Len(transaction.inputs) :
          /\ old.transaction.inputs[i].signature # NoSignature
          /\ call.arg[1].publicKey # old.transaction.inputs[i].publicKey

\* C26 witnesses: each of the other three methods has returned, called with
\* a wallet other than the one that had signed the first input.
C26_WitnessSignInput ==
    /\ Returned("signInput")
    /\ call.arg[1] = 0
    /\ old.transaction.inputs[1].signature # NoSignature
    /\ call.arg[2].publicKey # old.transaction.inputs[1].publicKey

C26_WitnessWallets ==
    /\ Returned("signTransactionWithWallets")
    /\ result = "transaction"
    /\ old.transaction.inputs[1].signature # NoSignature
    /\ call.arg[1][1].publicKey # old.transaction.inputs[1].publicKey

C26_WitnessWalletMap ==
    /\ Returned("signTransactionWithWalletMap")
    /\ result = "transaction"
    /\ old.transaction.inputs[1].signature # NoSignature
    /\ old.transaction.inputs[1].publicKey # AliceWallet.publicKey
    /\ utxoSet[<<SignerTxIds[1], 0>>].address = AliceWallet.address

C27_SigningKeepsIdOfUnwrittenOutputs ==
    (pc = "returned" /\ call.op \in SigningOps
        /\ old.transaction.id = Sha256(ContentOf(old.transaction)))
        => transaction.id = old.transaction.id

\* build() has returned a transaction.
Built_Transaction == Returned("build") /\ result.status = "transaction"

\* The entry of the builder's UTXO set an input refers to.
EntryOfInput(input) ==
    LET entries == call.arg[1].utxoSet
    IN  entries[CHOOSE i \in 1..Len(entries) :
                    /\ entries[i].txId = input.txId
                    /\ entries[i].outputIndex = input.outputIndex]

\* The amounts of the UTXOs the inputs of the built transaction spend.
RECURSIVE InputAmountsFrom(_)
InputAmountsFrom(i) ==
    IF i > Len(result.transaction.inputs) THEN 0
    ELSE EntryOfInput(result.transaction.inputs[i]).output.amount
             + InputAmountsFrom(i + 1)

SelectedAmount == InputAmountsFrom(1)
TargetAmount == SumAmounts(call.arg[1].recipients)

C28_WitnessNoChange ==
    /\ Built_Transaction
    /\ call.arg[1].feePerByte > 0
    /\ SelectedAmount = TargetAmount

\* The entries of the sender in the builder's UTXO set.
SenderEntries ==
    {e \in {call.arg[1].utxoSet[i] : i \in 1..Len(call.arg[1].utxoSet)} :
        e.output.address = call.arg[1].fromWallet.address}

SelectedEntries ==
    {EntryOfInput(result.transaction.inputs[i]) :
        i \in 1..Len(result.transaction.inputs)}

\* C29: the inputs are the shortest prefix of the sender's UTXOs in
\* descending order of amount that reaches the target: they are distinct
\* UTXOs of the sender, in descending order of amount, no UTXO left out is
\* larger than one taken, they reach the target, and without the last one
\* they do not.
C29_GreedyLargestFirst ==
    Built_Transaction =>
        LET inputs == result.transaction.inputs
            amount(i) == EntryOfInput(inputs[i]).output.amount
        IN  /\ SelectedEntries \subseteq SenderEntries
            /\ Cardinality(SelectedEntries) = Len(inputs)
            /\ \A i \in 1..(Len(inputs) - 1) : amount(i) >= amount(i + 1)
            /\ \A e \in SenderEntries \ SelectedEntries :
                  e.output.amount <= amount(Len(inputs))
            /\ SelectedAmount >= TargetAmount
            /\ SelectedAmount - amount(Len(inputs)) < TargetAmount

\* C29 witness: two UTXOs were selected and a smaller one of the sender was
\* left out, though it comes first in the UTXO set.
C29_Witness ==
    /\ Built_Transaction
    /\ Len(result.transaction.inputs) = 2
    /\ \E e \in SenderEntries \ SelectedEntries :
          /\ e = call.arg[1].utxoSet[1]
          /\ e.output.amount
                < EntryOfInput(result.transaction.inputs[2]).output.amount

RECURSIVE SumOfSet(_)
SumOfSet(entries) ==
    IF entries = {} THEN 0
    ELSE LET e == CHOOSE x \in entries : TRUE
         IN  e.output.amount + SumOfSet(entries \ {e})

\* C30: no set of UTXOs of the sender with fewer elements than the inputs
\* of the built transaction reaches the target.
C30_FewestInputs ==
    Built_Transaction =>
        \A fewer \in SUBSET SenderEntries :
            Cardinality(fewer) < Len(result.transaction.inputs)
                => SumOfSet(fewer) < TargetAmount

\* C30 witness: the sender has three UTXOs, two of them were selected, and
\* the two left-most of the UTXO set do not reach the target.
C30_Witness ==
    /\ Built_Transaction
    /\ Cardinality(SenderEntries) = 3
    /\ Len(result.transaction.inputs) = 2
    /\ call.arg[1].utxoSet[1].output.amount + call.arg[1].utxoSet[2].output.amount
          < TargetAmount

\* The four conditions under which build() is said to fail: no source
\* wallet, no recipient, no UTXO of the sender, or less in the sender's
\* UTXOs than the recipients are to receive.
BuildMustFail ==
    LET builder == call.arg[1]
    IN  \/ builder.fromWallet = NoWallet
        \/ builder.recipients = <<>>
        \/ SenderEntries = {}
        \/ SumOfSet(SenderEntries) < TargetAmount

\* C31: build() throws exactly under the four conditions, and to() with an
\* amount of zero or less throws and leaves the recipients as they were.
C31_BuildFailsExactlyWhenUnderfunded ==
    /\ Returned("build") => (result.status = "throw" <=> BuildMustFail)
    /\ (Returned("to") /\ call.arg[3] <= 0) =>
          /\ result.status = "throw"
          /\ result.builder.recipients = call.arg[1].recipients

\* build() throws exactly under the four conditions or when a recipient has
\* the empty address: the empty address is the only other cause.
C31_BuildFailsAlsoOnEmptyAddress ==
    Returned("build") =>
        (result.status = "throw" <=>
            \/ BuildMustFail
            \/ \E i \in 1..Len(call.arg[1].recipients) :
                  call.arg[1].recipients[i].address = EmptyAddress)

\* to() with an amount of zero or less throws and adds no recipient, and
\* with a larger amount adds one.
C31_ToRejectsNonPositiveAmount ==
    Returned("to") =>
        IF call.arg[3] <= 0
        THEN /\ result.status = "throw"
             /\ result.builder.recipients = call.arg[1].recipients
        ELSE Len(result.builder.recipients) = Len(call.arg[1].recipients) + 1

\* The fees of the candidates that are not coinbases and whose inputs are
\* all in the UTXO set: for each, what its inputs hold less what its
\* outputs pay.
RECURSIVE ComputableFees(_)
ComputableFees(txs) ==
    IF txs = <<>> THEN 0
    ELSE LET tx == Head(txs)
             counted == ~IsCoinbase(tx) /\ ConsumedBy(tx) \subseteq DOMAIN utxoSet
         IN  (IF counted
              THEN GetInputAmount(utxoSet, tx.inputs) - SumAmounts(tx.outputs)
              ELSE 0) + ComputableFees(Tail(txs))

\* The block mineBlock has returned is the one the claim describes.
MinedBlockIsAsDescribed ==
    LET b == result.block
        tip == chain[Len(chain)]
    IN  /\ b.index = tip.index + 1
        /\ b.previousHash = BlockHash(tip)
        /\ b.difficulty = NextDifficulty(chain, config)
        /\ Len(b.transactions) = Len(call.arg[1]) + 1
        /\ Tail(b.transactions) = call.arg[1]
        /\ IsCoinbase(b.transactions[1])
        /\ b.transactions[1].outputs =
              <<[amount |-> config.blockReward + ComputableFees(call.arg[1]),
                 address |-> Alice]>>

\* C32: mineBlock(candidates) returns a block with index tip.index + 1,
\* previousHash tip.hash, the next difficulty, and the transactions a
\* coinbase then the candidates in order; the coinbase pays the miner
\* blockReward plus the fees of the candidates that are not coinbases and
\* whose fee can be computed; the others are skipped and the call does not
\* fail.
C32_MineBlockAssemblesBlock ==
    Returned("mineBlock") =>
        /\ result.status = "block"
        /\ MinedBlockIsAsDescribed

\* mineBlock throws exactly when blockReward plus the computable fees is
\* not positive, and the block it returns otherwise is as described; a
\* candidate whose fee cannot be computed never makes it throw.
C32_MineBlockFailsOnlyOnReward ==
    Returned("mineBlock") =>
        IF config.blockReward + ComputableFees(call.arg[1]) <= 0
        THEN result.status = "throw"
        ELSE result.status = "block" /\ MinedBlockIsAsDescribed

\* The UTXOSet objects other than `s` hold what they held before the call.
OtherSetsUnchanged(s) ==
    \A t \in (1..Len(old.heap.sets)) \ {s} :
        Contents(heap, t) = Contents(old.heap, t)

\* C33: the set clone() returns has the keys and outputs of the set it was
\* made from; add, remove and clear on a set leave every other set as it
\* was; and writing to the Map that getAll() returned leaves every set as
\* it was.
C33_CloneIsNonAliasing ==
    /\ Returned("clone") =>
          /\ Contents(heap, result.set) = Contents(old.heap, call.arg[1])
          /\ OtherSetsUnchanged(0)
    /\ Returned("getAll") =>
          /\ heap.maps[heap.views[result.view]] = Contents(old.heap, call.arg[1])
          /\ OtherSetsUnchanged(0)
    /\ (Returned("add") \/ Returned("remove") \/ Returned("clear")) =>
          OtherSetsUnchanged(call.arg[1])
    /\ (Returned("Map.set") \/ Returned("Map.delete") \/ Returned("Map.clear")) =>
          OtherSetsUnchanged(0)

\* A set with an output has a clone, and one of the two was written to.
C33_Witness ==
    /\ (Returned("add") \/ Returned("remove") \/ Returned("clear"))
    /\ Len(heap.sets) >= 2
    /\ Contents(heap, call.arg[1]) # Contents(old.heap, call.arg[1])
    /\ \E t \in (1..Len(heap.sets)) \ {call.arg[1]} :
          /\ Contents(old.heap, t) = Contents(old.heap, call.arg[1])
          /\ Contents(heap, t) # EmptyUTXOSet

\* A Map that getAll() returned with an output in it was cleared.
C33_WitnessMap ==
    /\ Returned("Map.clear")
    /\ old.heap.maps[heap.views[call.arg[1]]] # EmptyUTXOSet
    /\ \E t \in 1..Len(heap.sets) :
          Contents(heap, t) = old.heap.maps[heap.views[call.arg[1]]]

\* The transaction fromJSON returned has the inputs, with their signatures
\* and public keys, and the outputs of the transaction.
RoundTripKeepsLists ==
    /\ result.transaction.inputs = transaction.inputs
    /\ result.transaction.outputs = transaction.outputs

\* C34: fromJSON(tx.toJSON()) has the id, the inputs with their signatures
\* and public keys, the outputs and the timestamp of tx, whatever its
\* timestamp and whichever of its inputs are signed, and it verifies
\* whenever tx does.
C34_RoundTripKeepsTransaction ==
    (Returned("fromJSON") /\ call.arg[1] = ToJSON(transaction)) =>
        /\ result.status = "transaction"
        /\ RoundTripKeepsLists
        /\ result.transaction.id = transaction.id
        /\ result.transaction.timestamp = transaction.timestamp
        /\ VerifyTransaction(transaction, utxoSet)
              => VerifyTransaction(result.transaction, utxoSet)

\* The round trip keeps the lists of every transaction with an output, the
\* timestamp exactly when it is not 0, and with the timestamp the
\* verification; the id it returns is the digest of the content.
C34_RoundTripKeepsAllButZeroTimestamp ==
    (Returned("fromJSON") /\ call.arg[1] = ToJSON(transaction)) =>
        IF transaction.outputs = <<>> THEN result.status = "throw"
        ELSE /\ result.status = "transaction"
             /\ RoundTripKeepsLists
             /\ (result.transaction.timestamp = transaction.timestamp)
                   <=> (transaction.timestamp # 0)
             /\ result.transaction.id = CalculateId(result.transaction.inputs,
                                                    result.transaction.outputs,
                                                    result.transaction.timestamp)
             /\ transaction.timestamp # 0 =>
                   (VerifyTransaction(transaction, utxoSet)
                       <=> VerifyTransaction(result.transaction, utxoSet))

\* The outpoints that a transaction of the block consumes and another
\* transaction of the block creates.
SpentWithinBlock(block) ==
    LET txs == block.transactions
    IN  UNION {ConsumedBy(txs[j]) \cap CreatedBy(txs[i]) :
                   <<i, j>> \in {p \in (1..Len(txs)) \X (1..Len(txs)) : p[1] # p[2]}}

\* C35: addBlock does not accept a candidate with a transaction that spends
\* an output created by another transaction of the same block, and a
\* candidate it does not accept leaves the chain and the UTXO set as they
\* were.
C35_SpendWithinBlockRejected ==
    Returned("addBlock") =>
        /\ SpentWithinBlock(call.arg[1]) # {} => result # "true"
        /\ result # "true" => chain = old.chain /\ utxoSet = old.utxoSet

\* addBlock accepts a candidate only if every input of its non-coinbase
\* transactions is in the UTXO set as it was before the call: it does not
\* accept a transaction that spends an outpoint which only a transaction of
\* the same block creates, and what it does not accept it does not apply.
C35_ValidatedAgainstSetBeforeBlock ==
    Returned("addBlock") =>
        /\ result = "true" => InputsOk(call.arg[1], old.utxoSet)
        /\ SpentWithinBlock(call.arg[1]) \ DOMAIN old.utxoSet # {}
              => result # "true"
        /\ result # "true" => chain = old.chain /\ utxoSet = old.utxoSet

\* The case occurs: a candidate whose only fault is a transaction spending
\* an outpoint that only the candidate's own transaction creates.
C35_WitnessOnlyCreatedWithin ==
    /\ Returned("addBlock") /\ old.chain # <<>>
    /\ SpentWithinBlock(call.arg[1]) \ DOMAIN old.utxoSet # {}
    /\ FailedChecks(call.arg[1], OldTip, old.utxoSet) = {"inputs"}

\* The blocks of the chain that addBlock appended.
AddedBlocks == SubSeq(chain, Len(chain) - history.added + 1, Len(chain))

\* The outpoints the inputs of the non-coinbase transactions refer to, one
\* entry per input, in order.
RECURSIVE InputOutpoints(_)
InputOutpoints(txs) ==
    IF txs = <<>> THEN <<>>
    ELSE (IF IsCoinbase(Head(txs)) THEN <<>>
          ELSE [i \in 1..Len(Head(txs).inputs) |->
                   <<Head(txs).inputs[i].txId, Head(txs).inputs[i].outputIndex>>])
             \o InputOutpoints(Tail(txs))

\* C36: over the non-coinbase transactions of the blocks that addBlock
\* accepted, every outpoint is the reference of at most one input.
C36_NoOutpointConsumedTwice ==
    LET spent == InputOutpoints(ChainTxs(AddedBlocks))
    IN  \A i \in 1..Len(spent) : \A j \in 1..Len(spent) :
            spent[i] = spent[j] => i = j

\* The sum of the amounts of the outputs of a UTXO map.
RECURSIVE TotalOver(_, _)
TotalOver(utxos, keys) ==
    IF keys = {} THEN 0
    ELSE LET k == CHOOSE x \in keys : TRUE
         IN  utxos[k].amount + TotalOver(utxos, keys \ {k})

TotalValue(utxos) == TotalOver(utxos, DOMAIN utxos)

\* C37: with transactions made by createSimpleTransfer against the current
\* UTXO set and pooled, and blocks mined from the pool and appended by
\* addBlock, the amounts of the UTXO set sum to blockReward times the
\* length of the chain.
C37_ValueIsConserved ==
    TotalValue(utxoSet) = config.blockReward * Len(chain)

\* A block that POST /mine appended adds blockReward to the sum when no
\* two inputs of its transactions refer to the same outpoint and each of
\* its transactions spends outpoints of the set.
C37_ConservedWithoutRepeatedOutpoint ==
    (Returned("POST /mine") /\ result.addBlock = "true") =>
        LET newBlock == chain[Len(chain)]
            spent == InputOutpoints(newBlock.transactions)
        IN  (\A i \in 1..Len(spent) : \A j \in 1..Len(spent) :
                 spent[i] = spent[j] => i = j)
              => TotalValue(utxoSet)
                    = TotalValue(old.utxoSet) + config.blockReward

\* The case occurs: a block with a pooled transfer was appended.
C37_WitnessTransferMined ==
    /\ Returned("POST /mine") /\ result.addBlock = "true"
    /\ Len(chain[Len(chain)].transactions) > 1

\* C38: when addBlock rejects the block POST /mine has mined, the pool
\* still holds every transaction it held before the request.
C38_RejectedBlockKeepsPool ==
    (Returned("POST /mine") /\ result.addBlock = "false") =>
        \A i \in 1..Len(old.pendingTransactions) :
            \E j \in 1..Len(pendingTransactions) :
                pendingTransactions[j] = old.pendingTransactions[i]

\* POST /mine takes the mined transactions out of the pool as soon as the
\* block is mined, whatever addBlock returns then; the pool is as it was
\* only when the route answers before mining or mineBlock throws.
C38_PoolLosesWhatWasMined ==
    Returned("POST /mine") =>
        IF result.addBlock = "none"
        THEN pendingTransactions = old.pendingTransactions
        ELSE pendingTransactions =
                 IF Len(call.arg[2]) > 0
                 THEN WithoutIds(old.pendingTransactions, call.arg[2])
                 ELSE <<>>

\* C39: every block of the chain has a difficulty of 1 or more, and every
\* block after the first has the difficulty that calculateNextDifficulty
\* returned on the blocks before it: addBlock accepts no candidate of
\* another difficulty.
C39_BlocksCarryPrescribedDifficulty ==
    /\ \A i \in 1..Len(chain) : chain[i].difficulty >= 1
    /\ \A i \in 2..Len(chain) :
          chain[i].difficulty = NextDifficulty(SubSeq(chain, 1, i - 1), config)

\* addBlock tests the candidate's hash against the candidate's own
\* difficulty and nothing else of the difficulty: a candidate at fault in
\* nothing but its difficulty is accepted when its hash has that many
\* zeros, which at difficulty 0 every hash has.
C39_DifficultyIsTheCandidatesOwn ==
    (Returned("addBlock") /\ old.chain # <<>>
        /\ FailedChecks(call.arg[1], OldTip, old.utxoSet) = {}) =>
        /\ result = "true"
        /\ StartsWithZeros(BlockHash(call.arg[1]), call.arg[1].difficulty)

\* The case occurs: a candidate of difficulty 0 was accepted.
C39_WitnessDifficultyZero ==
    /\ Returned("addBlock") /\ result = "true"
    /\ call.arg[1].difficulty = 0

\* The positions of the coinbase transactions of a block.
CoinbasePositions(block) ==
    {i \in 1..Len(block.transactions) : IsCoinbase(block.transactions[i])}

\* C40: a block that addBlock or replaceChain accepts has one coinbase
\* transaction, the first of its transactions, and addBlock accepts no
\* block whose coinbase pays more than blockReward plus the fees of its
\* other transactions.
C40_OneCoinbaseFirst ==
    /\ (Returned("addBlock") /\ result = "true") =>
          /\ CoinbasePositions(call.arg[1]) = {1}
          /\ SumAmounts(call.arg[1].transactions[1].outputs)
                <= config.blockReward
                     + CalculateTotalFees(old.utxoSet, call.arg[1].transactions)
    /\ (Returned("replaceChain") /\ result = "true") =>
          \A i \in 1..Len(chain) : CoinbasePositions(chain[i]) = {1}

\* addBlock and replaceChain have accepted a block with no coinbase, with
\* its only coinbase in second place, with two coinbases.
C40_WitnessNoCoinbase ==
    /\ Returned("addBlock") /\ result = "true"
    /\ CoinbasePositions(call.arg[1]) = {}
C40_WitnessCoinbaseSecond ==
    /\ Returned("addBlock") /\ result = "true"
    /\ CoinbasePositions(call.arg[1]) = {2}
C40_WitnessTwoCoinbases ==
    /\ Returned("addBlock") /\ result = "true"
    /\ CoinbasePositions(call.arg[1]) = {1, 2}
C40_WitnessReplaceChain ==
    /\ Returned("replaceChain") /\ result = "true"
    /\ \E i \in 1..Len(chain) : CoinbasePositions(chain[i]) # {1}

====
